---- MODULE Spec2Model ----
(***************************************************************************)
(* Model of the Tool4Boxology embedding pipeline and retrieval engine:     *)
(*   JSONEmbed.py  - fact loader, negative sampler, TransE trainer,        *)
(*                   validator, persistence (main)                         *)
(*   KGRAG.py      - artifact loaders, candidate ranking                   *)
(* Python strings are sequences of one-character strings, so that          *)
(* comparison, sorting, substring tests, formatting and parsing are        *)
(* computed the way the code computes them.                                *)
(***************************************************************************)
EXTENDS Integers, Sequences, FiniteSets, TLC

VARIABLES
    \* ---- load_kg_triples (JSONEmbed.py) ----
    lines, line_num, triples, entities, relations, entity_types, relation_types,
    filtered_count, kept_count, entity_to_idx, relation_to_idx, indexed_triples,
    load_pc,
    \* ---- generate_negative_sample (JSONEmbed.py) ----
    ns_triple, ns_num_entities, ns_entity_set, ns_attempt, ns_neg_triple,
    ns_result, ns_pc,
    \* ---- train_transe_enhanced (JSONEmbed.py) ----
    train_triples, val_triples, triple_set, relation_importance, num_epochs, patience,
    heap, entity_embeddings, relation_embeddings, best_entity_embeddings,
    best_relation_embeddings, best_val_score, patience_counter, epoch, fact_i, neg_k,
    pos_score, tr_result, tr_pc,
    \* history of a training run: the validation score of every epoch run, the
    \* live matrices at the start and at the end of every epoch run, and the
    \* last (positive, negative) pair processed with the four norms it measured
    val_history, live_history, last_step,
    \* ---- main() of JSONEmbed.py from the save on, and the loaders of KGRAG.py ----
    kept_facts, main_entity_to_idx, main_relation_to_idx, main_indexed_triples,
    main_entity_embeddings, main_relation_embeddings, files, persist_pc,
    ret_load_embeddings, ret_load_entity_map, ret_load_relation_map, ret_load_triples,
    engine,
    \* ---- find_similar_entities (KGRAG.py) ----
    query_text, entity_labels, top_k, scores, rank_result, rank_pc,
    \* the entity_embeddings argument of the call, and the result of a second
    \* call with the same arguments
    rank_embeddings, rank_again,
    \* ---- build_entity_context (KGRAG.py) ----
    ctx_entity_idx, ctx_triples, ctx_entity_labels, ctx_relation_labels,
    ctx_outgoing, ctx_incoming, ctx_result, ctx_pc,
    \* ---- initialize_embeddings_enhanced (JSONEmbed.py) ----
    \* the arguments (types by index), the two uniform draws, the two
    \* matrices returned
    init_entity_types, init_relation_types, init_entity_draws, init_relation_draws,
    init_entity_embeddings, init_relation_embeddings, init_pc,
    \* ---- a KGRAG instance (KGRAG.py) and its callers ----
    \* rag: the instance's attributes; probes: calls of _check_llm_availability;
    \* llm_requests: generation requests sent to a text generator; eng_calls:
    \* method calls made on the instance; last_call: the latest call, what came
    \* back from outside during it and what it returned; fallback_texts: the
    \* texts generate_answer returned when no completion was obtained
    rag, eng_pc, probes, llm_requests, eng_calls, last_call, fallback_texts,
    \* ---- one (positive, negative) pair of the training loop (JSONEmbed.py) ----
    \* the two matrices before the step, the pair, and what the step computed
    gs_E, gs_R, gs_pos, gs_neg, gs_out, gs_pc,
    \* ---- the backend (main.py) ----
    \* the two globals; the requests handled; the latest request with its
    \* response; the source of the latest request whose create_kg returned
    current_kg_data, rag_instance, web_requests, last_request, last_created

loadVars == <<lines, line_num, triples, entities, relations, entity_types,
              relation_types, filtered_count, kept_count, entity_to_idx,
              relation_to_idx, indexed_triples, load_pc>>

nsVars == <<ns_triple, ns_num_entities, ns_entity_set, ns_attempt, ns_neg_triple,
            ns_result, ns_pc>>

trainVars == <<train_triples, val_triples, triple_set, relation_importance, num_epochs,
               patience, heap, entity_embeddings, relation_embeddings,
               best_entity_embeddings, best_relation_embeddings, best_val_score,
               patience_counter, epoch, fact_i, neg_k, pos_score, tr_result, tr_pc,
               val_history, live_history, last_step>>

mainVars == <<kept_facts, main_entity_to_idx, main_relation_to_idx,
              main_indexed_triples, main_entity_embeddings, main_relation_embeddings,
              files, persist_pc>>

persistVars == <<mainVars, ret_load_embeddings, ret_load_entity_map,
                 ret_load_relation_map, ret_load_triples, engine>>

rankVars == <<query_text, entity_labels, top_k, scores, rank_result, rank_pc,
              rank_embeddings, rank_again>>

ctxVars == <<ctx_entity_idx, ctx_triples, ctx_entity_labels, ctx_relation_labels,
             ctx_outgoing, ctx_incoming, ctx_result, ctx_pc>>

initVars == <<init_entity_types, init_relation_types, init_entity_draws,
              init_relation_draws, init_entity_embeddings, init_relation_embeddings,
              init_pc>>

engVars == <<rag, eng_pc, probes, llm_requests, eng_calls, last_call, fallback_texts>>

stepVars == <<gs_E, gs_R, gs_pos, gs_neg, gs_out, gs_pc>>

webVars == <<current_kg_data, rag_instance, web_requests, last_request, last_created>>

vars == <<loadVars, nsVars, trainVars, persistVars, rankVars, ctxVars, initVars, engVars,
          stepVars, webVars>>

(***************************************************************************)
(* Bounds of the model                                                     *)
(***************************************************************************)
\* longest input file of the fact loader, in lines
MaxLines == 2
\* largest entity count given to the negative sampler
MaxSamplerEntities == 2
\* largest number of true facts in the sampler's collision set
MaxSamplerFacts == 3
\* the retry bound max_attempts of generate_negative_sample (100 by default)
max_attempts == 2
\* the dimension of the embedding vectors (EMBEDDING_DIM, 100 in the script)
Dim == 2
\* the epoch cap num_epochs given to the trainer
MaxEpochs == 3
\* the largest patience given to the trainer
MaxPatience == 2
\* the largest number of kept facts given to the persistence step
MaxPersistFacts == 2
\* the largest number of entities in the label table given to the ranking
MaxRankEntities == 3
\* the largest top_k given to the ranking
MaxTopK == 3
\* the largest number of facts handed to build_entity_context
MaxContextFacts == 6
\* the largest number of entities given to the embedding initializer
MaxInitEntities == 2
\* the largest number of method calls made on a KGRAG instance
MaxEngineCalls == 2
\* the number of entities of the matrices one gradient step is run on
MaxStepEntities == 3
\* the largest number of requests sent to the backend
MaxWebRequests == 3

(***************************************************************************)
(* Constants of the program                                                *)
(***************************************************************************)
\* L2_LAMBDA = 0.0001 = 1 / L2_LAMBDA_INV
L2_LAMBDA_INV == 10000
\* neg_samples=3 of the validator call in train_transe_enhanced
VAL_NEG_SAMPLES == 3
\* best_val_score = float('inf'): no score is below it, every score is less
INF == -1
\* TOP_K = 5, the default top_k of find_similar_entities
TOP_K == 5
\* outgoing[:5] and incoming[:5], lines 188 and 190
CONTEXT_LIST_CAP == 5
\* the 1e-10 added to a norm before the division of line 264, in units of
\* 1 / SCALE
NORM_GUARD == 0
\* the 6.0 of the Xavier bound sqrt(6.0 / (n + dim)), lines 241-242
XAVIER_NUMERATOR == 6
\* top_k=3 of the find_similar_entities call of describe_node
DESCRIBE_TOP_K == 3

(***************************************************************************)
(* Python str: characters, ordering, case, substring                       *)
(***************************************************************************)
\* the characters used, in code-point order (str comparison is by code point)
Alphabet ==
    <<"\t","\n"," ","\"","#","-",".","/","0","1","2","3","4","5","6","7","8","9",":",
      "A","B","C","D","E","F","G","H","I","J","K","L","M","N","O","P","Q","R","S","T",
      "U","V","W","X","Y","Z","_",
      "a","b","c","d","e","f","g","h","i","j","k","l","m","n","o","p","q","r","s","t",
      "u","v","w","x","y","z">>

Ord(c) == CHOOSE i \in 1..Len(Alphabet) : Alphabet[i] = c

UpperChars == <<"A","B","C","D","E","F","G","H","I","J","K","L","M","N","O","P","Q","R","S","T","U","V","W","X","Y","Z">>
LowerChars == <<"a","b","c","d","e","f","g","h","i","j","k","l","m","n","o","p","q","r","s","t","u","v","w","x","y","z">>

\* str.lower() on one character
LowerChar(c) ==
    IF \E i \in 1..Len(UpperChars) : UpperChars[i] = c
    THEN LowerChars[CHOOSE i \in 1..Len(UpperChars) : UpperChars[i] = c]
    ELSE c

\* str.lower()
Lower(s) == [i \in 1..Len(s) |-> LowerChar(s[i])]

MinOf(S) == CHOOSE x \in S : \A y \in S : x <= y
MaxOf(S) == CHOOSE x \in S : \A y \in S : x >= y

\* a < b on Python strings: lexicographic by code point
StrLess(a, b) ==
    LET n == IF Len(a) < Len(b) THEN Len(a) ELSE Len(b)
        d == {i \in 1..n : a[i] # b[i]}
    IN  IF d = {} THEN Len(a) < Len(b)
        ELSE Ord(a[MinOf(d)]) < Ord(b[MinOf(d)])

\* s.startswith(p), s.endswith(p), (sub in s)
StartsWith(s, p) == Len(p) <= Len(s) /\ SubSeq(s, 1, Len(p)) = p
EndsWith(s, p) == Len(p) <= Len(s) /\ SubSeq(s, Len(s) - Len(p) + 1, Len(s)) = p
Contains(s, sub) ==
    \E i \in 1..(Len(s) - Len(sub) + 1) : SubSeq(s, i, i + Len(sub) - 1) = sub

Range(f) == {f[i] : i \in DOMAIN f}

\* the permutations of 1..n
Perms(n) == {f \in [1..n -> 1..n] : \A i, j \in 1..n : f[i] = f[j] => i = j}

(***************************************************************************)
(* JSONEmbed.py: constants of the fact loader                              *)
(***************************************************************************)
\* "http://www.w3.org/2000/01/rdf-schema#label"
RDFS_LABEL == <<"h","t","t","p",":","/","/","w","w","w",".","w","3",".","o","r","g","/","2","0","0","0","/","0","1","/","r","d","f","-","s","c","h","e","m","a","#","l","a","b","e","l">>
\* "http://www.w3.org/1999/02/22-rdf-syntax-ns#type"
RDF_TYPE == <<"h","t","t","p",":","/","/","w","w","w",".","w","3",".","o","r","g","/","1","9","9","9","/","0","2","/","2","2","-","r","d","f","-","s","y","n","t","a","x","-","n","s","#","t","y","p","e">>
\* "http://tool4boxology.org/hasInput" and the other five allow-listed predicates
HAS_INPUT == <<"h","t","t","p",":","/","/","t","o","o","l","4","b","o","x","o","l","o","g","y",".","o","r","g","/","h","a","s","I","n","p","u","t">>
HAS_OUTPUT == <<"h","t","t","p",":","/","/","t","o","o","l","4","b","o","x","o","l","o","g","y",".","o","r","g","/","h","a","s","O","u","t","p","u","t">>
HAS_PROCESS == <<"h","t","t","p",":","/","/","t","o","o","l","4","b","o","x","o","l","o","g","y",".","o","r","g","/","h","a","s","P","r","o","c","e","s","s">>
HAS_PATTERN == <<"h","t","t","p",":","/","/","t","o","o","l","4","b","o","x","o","l","o","g","y",".","o","r","g","/","h","a","s","P","a","t","t","e","r","n">>
INPUT_ROLE == <<"h","t","t","p",":","/","/","t","o","o","l","4","b","o","x","o","l","o","g","y",".","o","r","g","/","i","n","p","u","t","R","o","l","e","P","a","r","t","i","c","i","p","a","t","e","s","I","n","P","r","o","c","e","s","s">>
OUTPUT_ROLE == <<"h","t","t","p",":","/","/","t","o","o","l","4","b","o","x","o","l","o","g","y",".","o","r","g","/","o","u","t","p","u","t","R","o","l","e","P","a","r","t","i","c","i","p","a","t","e","s","I","n","P","r","o","c","e","s","s">>

KEEP_PREDICATES ==
    {HAS_INPUT, HAS_OUTPUT, HAS_PROCESS, HAS_PATTERN, INPUT_ROLE, OUTPUT_ROLE}

\* the keys of RELATION_WEIGHTS, in the dict's insertion order
RELATION_WEIGHT_KEYS ==
    << <<"h","a","s","P","a","t","t","e","r","n">>,
       <<"h","a","s","P","r","o","c","e","s","s">>,
       <<"h","a","s","I","n","p","u","t">>,
       <<"h","a","s","O","u","t","p","u","t">>,
       <<"i","n","p","u","t","R","o","l","e","P","a","r","t","i","c","i","p","a","t","e","s","I","n","P","r","o","c","e","s","s">>,
       <<"o","u","t","p","u","t","R","o","l","e","P","a","r","t","i","c","i","p","a","t","e","s","I","n","P","r","o","c","e","s","s">> >>

None == <<>>
QUOTE == "\""

\* is_literal(obj)
is_literal(obj) == StartsWith(obj, <<QUOTE>>) /\ EndsWith(obj, <<QUOTE>>)

(* A line of the input file, by the shape the regular expression of
   parse_nt_line recognises: kind "blank" (empty after strip), "comment"
   (starts with #), "uri" (<s> <p> <o>), "literal" (<s> <p> "o"), and
   "malformed" (anything else). s, p, o are the bracketed / quoted texts. *)
\* parse_nt_line(line): None, or the (subject, predicate, object) triple
parse_nt_line(line) ==
    IF line.kind \in {"blank", "comment"} THEN None
    ELSE IF line.kind = "uri" /\ line.s # <<>> /\ line.p # <<>> /\ line.o # <<>>
         THEN <<line.s, line.p, line.o>>
    ELSE IF line.kind = "literal" /\ line.s # <<>> /\ line.p # <<>> /\ line.o # <<>>
         THEN <<line.s, line.p, <<QUOTE>> \o line.o \o <<QUOTE>> >>
    ELSE None

\* the index of the last occurrence of character c in s, 0 if none
LastIndexOf(s, c) ==
    LET at == {i \in 1..Len(s) : s[i] = c} IN IF at = {} THEN 0 ELSE MaxOf(at)

\* extract_label_from_uri(uri)
extract_label_from_uri(uri) ==
    IF \E i \in 1..Len(uri) : uri[i] = "#"
    THEN SubSeq(uri, LastIndexOf(uri, "#") + 1, Len(uri))
    ELSE IF \E i \in 1..Len(uri) : uri[i] = "/"
         THEN SubSeq(uri, LastIndexOf(uri, "/") + 1, Len(uri))
    ELSE uri

\* extract_entity_type(uri)
extract_entity_type(uri) ==
    IF Contains(uri, <<"B","o","x","o","l","o","g","y">>) THEN "Boxology"
    ELSE IF Contains(uri, <<"D","e","s","i","g","n","P","a","t","t","e","r","n">>)
         THEN "DesignPattern"
    ELSE IF Contains(uri, <<"C","o","m","p","o","n","e","n","t">>) THEN "Component"
    ELSE "Unknown"

\* extract_relation_type(predicate): the first key contained in the label
extract_relation_type(predicate) ==
    LET label == Lower(extract_label_from_uri(predicate))
        hits == {i \in 1..Len(RELATION_WEIGHT_KEYS) :
                    Contains(label, Lower(RELATION_WEIGHT_KEYS[i]))}
    IN  IF hits = {} THEN <<"o","t","h","e","r">>
        ELSE RELATION_WEIGHT_KEYS[MinOf(hits)]

\* the filter chain of load_kg_triples on one parsed triple:
\* "skip" (not a triple), "filtered" (one of the four continue branches), "keep"
FilterDecision(line) ==
    LET triple == parse_nt_line(line) IN
    IF triple = None THEN "skip"
    ELSE IF triple[2] = RDFS_LABEL THEN "filtered"
    ELSE IF triple[2] = RDF_TYPE THEN "filtered"
    ELSE IF is_literal(triple[3]) THEN "filtered"
    ELSE IF triple[2] \notin KEEP_PREDICATES THEN "filtered"
    ELSE "keep"

\* sorted(S) for a set of strings, descending (sorted(..., reverse=True))
RECURSIVE SortedReverse(_)
SortedReverse(S) ==
    IF S = {} THEN <<>>
    ELSE LET m == CHOOSE x \in S : \A y \in S : x = y \/ StrLess(y, x)
         IN  <<m>> \o SortedReverse(S \ {m})

\* sorted(S) for a set of strings
RECURSIVE Sorted(_)
Sorted(S) ==
    IF S = {} THEN <<>>
    ELSE LET m == CHOOSE x \in S : \A y \in S : x = y \/ StrLess(x, y)
         IN  <<m>> \o Sorted(S \ {m})

\* {x: idx for idx, x in enumerate(sorted(S))}
IndexMap(S) ==
    LET srt == Sorted(S) IN
    [x \in S |-> (CHOOSE i \in 1..Len(srt) : srt[i] = x) - 1]

\* idx_to_x[idx] of the reverse map {idx: x for x, idx in map.items()}
UriOfIndex(map, idx) == CHOOSE u \in DOMAIN map : map[u] = idx

(***************************************************************************)
(* Inputs of the fact loader                                               *)
(***************************************************************************)
\* a predicate outside the allow-list: "http://tool4boxology.org/partOf"
NOT_KEPT_PRED == <<"h","t","t","p",":","/","/","t","o","o","l","4","b","o","x","o","l","o","g","y",".","o","r","g","/","p","a","r","t","O","f">>

SubjectPool == { <<"a">>, <<"B">> }
\* the texts between the brackets of an object reference; the last one is
\* "x" with its quotes, which [^>]+ of the regular expression accepts
ObjectPool == { <<"a">>, <<"a","b">>, <<QUOTE, "x", QUOTE>> }
LiteralPool == { <<"x">> }
PredicatePool == {RDFS_LABEL, RDF_TYPE, HAS_INPUT, HAS_OUTPUT, NOT_KEPT_PRED}

NoText == [kind : {"blank", "comment", "malformed"}, s : {<<>>}, p : {<<>>}, o : {<<>>}]
LinePool ==
    NoText
    \cup [kind : {"uri"}, s : SubjectPool, p : PredicatePool, o : ObjectPool]
    \cup [kind : {"literal"}, s : SubjectPool, p : {RDFS_LABEL, HAS_INPUT}, o : LiteralPool]

LineFiles == UNION {[1..n -> LinePool] : n \in 0..MaxLines}

(***************************************************************************)
(* generate_negative_sample as a state machine: one step per attempt of    *)
(* the retry loop, then the fallback                                       *)
(***************************************************************************)
SamplerRelations == {0, 1}

SamplerFacts(n) == (0..(n - 1)) \X SamplerRelations \X (0..(n - 1))

NsInit ==
    /\ ns_num_entities \in 1..MaxSamplerEntities
    /\ ns_entity_set \in {S \in SUBSET SamplerFacts(ns_num_entities) :
                            Cardinality(S) \in 1..MaxSamplerFacts}
    /\ ns_triple \in ns_entity_set
    /\ ns_attempt = 0
    /\ ns_neg_triple = None
    /\ ns_result = None
    /\ ns_pc = "loop"

NsIdle ==
    /\ ns_num_entities = 0
    /\ ns_entity_set = {}
    /\ ns_triple = None
    /\ ns_attempt = 0
    /\ ns_neg_triple = None
    /\ ns_result = None
    /\ ns_pc = "idle"

\* the corruption built from one pair of draws: random.random() < 0.5 picks
\* the head, random.randint(0, num_entities - 1) picks the entity
Corrupt(triple, head, e) ==
    IF head THEN <<e, triple[2], triple[3]>> ELSE <<triple[1], triple[2], e>>

\* one iteration of the retry loop (lines 278-288)
NsAttempt ==
    /\ ns_pc = "loop"
    /\ ns_attempt < max_attempts
    /\ \E head \in BOOLEAN, e \in 0..(ns_num_entities - 1) :
          LET neg_triple == Corrupt(ns_triple, head, e) IN
          /\ ns_neg_triple' = neg_triple
          /\ ns_attempt' = ns_attempt + 1
          /\ IF neg_triple \notin ns_entity_set
             THEN ns_result' = neg_triple /\ ns_pc' = "returned"
             ELSE UNCHANGED <<ns_result, ns_pc>>
    /\ UNCHANGED <<ns_triple, ns_num_entities, ns_entity_set>>
    /\ UNCHANGED <<loadVars, trainVars, persistVars, rankVars, ctxVars, initVars,
                   engVars, stepVars, webVars>>

\* the fallback after the loop (lines 290-294): a fresh, unchecked corruption
NsFallback ==
    /\ ns_pc = "loop"
    /\ ns_attempt = max_attempts
    /\ \E head \in BOOLEAN, e \in 0..(ns_num_entities - 1) :
          ns_result' = Corrupt(ns_triple, head, e)
    /\ ns_pc' = "returned"
    /\ UNCHANGED <<ns_triple, ns_num_entities, ns_entity_set, ns_attempt, ns_neg_triple>>
    /\ UNCHANGED <<loadVars, trainVars, persistVars, rankVars, ctxVars, initVars,
                   engVars, stepVars, webVars>>

NextNs == NsAttempt \/ NsFallback

(***************************************************************************)
(* Fixed-point arithmetic for the float vectors of the trainer             *)
(***************************************************************************)
\* the fixed-point unit: the real number 1.0
SCALE == 10 * 100
\* the tolerance of a norm comparison (one per cent)
EPS == SCALE \div 100
\* the unit of a learning rate: learning rate 1.0
LR_SCALE == 100 * 100

\* a / b rounded to the nearest integer (b > 0)
RDiv(a, b) ==
    IF a >= 0 THEN (2 * a + b) \div (2 * b) ELSE -((2 * (-a) + b) \div (2 * b))

RECURSIVE SqrtSearch(_, _, _)
SqrtSearch(n, lo, hi) ==
    IF lo >= hi THEN lo
    ELSE LET mid == (lo + hi + 1) \div 2
         IN  IF mid * mid <= n THEN SqrtSearch(n, mid, hi)
             ELSE SqrtSearch(n, lo, mid - 1)

\* floor(sqrt(n))
ISqrt(n) == SqrtSearch(n, 0, IF n < 46340 THEN n ELSE 46340)

Coords == 1..Dim
VAdd(a, b) == [i \in Coords |-> a[i] + b[i]]
VSub(a, b) == [i \in Coords |-> a[i] - b[i]]
\* k * v for an integer k
VTimes(k, v) == [i \in Coords |-> k * v[i]]
\* lr * v for a learning rate lr in units of 1 / LR_SCALE
VLr(lr, v) == [i \in Coords |-> RDiv(lr * v[i], LR_SCALE)]
\* lr * L2_LAMBDA * v, with L2_LAMBDA = 1 / L2_LAMBDA_INV
VLrL2(lr, v) == [i \in Coords |-> RDiv(lr * v[i], LR_SCALE * L2_LAMBDA_INV)]
RECURSIVE SumSqUpTo(_, _)
SumSqUpTo(v, n) == IF n = 0 THEN 0 ELSE v[n] * v[n] + SumSqUpTo(v, n - 1)
SumSq(v) == SumSqUpTo(v, Dim)
\* np.linalg.norm(v), in units of 1 / SCALE
Norm(v) == ISqrt(SumSq(v))
\* v / norm
VDiv(v, norm) == [i \in Coords |-> RDiv(v[i] * SCALE, norm)]

\* compute_score(h_emb, r_emb, t_emb) with the default L2 norm
compute_score(h_emb, r_emb, t_emb) == Norm(VSub(VAdd(h_emb, r_emb), t_emb))

(***************************************************************************)
(* JSONEmbed.py: train_transe_enhanced and evaluate_model_margin           *)
(***************************************************************************)
\* RELATION_WEIGHTS.get(rel_type, 1.0), in tenths
RelationWeight(rel_type) ==
    IF rel_type = RELATION_WEIGHT_KEYS[1] THEN 20
    ELSE IF rel_type = RELATION_WEIGHT_KEYS[2] THEN 18
    ELSE IF rel_type = RELATION_WEIGHT_KEYS[3] THEN 16
    ELSE IF rel_type = RELATION_WEIGHT_KEYS[4] THEN 16
    ELSE IF rel_type = RELATION_WEIGHT_KEYS[5] THEN 15
    ELSE IF rel_type = RELATION_WEIGHT_KEYS[6] THEN 15
    ELSE 10

\* relation_importance of lines 389-394: index -> weight in tenths
RelationImportance(rel_to_idx, rel_types) ==
    [idx \in 0..(Cardinality(DOMAIN rel_to_idx) - 1) |->
        LET relation == UriOfIndex(rel_to_idx, idx)
        IN  RelationWeight(IF relation \in DOMAIN rel_types THEN rel_types[relation]
                           ELSE <<"o","t","h","e","r">>)]

\* every fact generate_negative_sample(triple, n, S) can return: a corruption
\* outside S from the retry loop, or any corruption from the fallback, which
\* is reached when max_attempts corruptions in a row can fall in S
NegativeSamples(triple, n, S) ==
    LET C == {Corrupt(triple, head, e) : head \in BOOLEAN, e \in 0..(n - 1)}
    IN  (IF max_attempts > 0 THEN C \ S ELSE {})
        \cup (IF max_attempts = 0 \/ C \cap S # {} THEN C ELSE {})

\* the clipped, weighted loss max(0, margin + pos_score - neg_score) * rel_weight,
\* in units of 1 / (10 * SCALE)
Loss(mrg, pos, neg, rel_weight) ==
    (IF mrg + pos - neg > 0 THEN mrg + pos - neg ELSE 0) * rel_weight

\* lines 472-479 for one entity row: not rescaled at all
ProjectNever(v, norm) == v

\* lines 472-479 for one entity row: divided by its norm when the norm exceeds 1
Project(v, norm) == IF norm > SCALE THEN VDiv(v, norm) ELSE v

\* lines 448-479: the gradient step of one (positive, negative) pair on the
\* entity matrix E and the relation matrix R, statement by statement (the
\* rows are updated in place, so a later statement reads what an earlier one
\* wrote)
GradientUpdate(E, R, h, r, t, h_neg, r_neg, t_neg, lr) ==
    LET grad == VTimes(2, VSub(VAdd(E[h], R[r]), E[t]))
        E1 == [E EXCEPT ![h] = VSub(@, VLr(lr, grad))]
        R1 == [R EXCEPT ![r] = VSub(@, VLr(lr, grad))]
        E2 == [E1 EXCEPT ![t] = VAdd(@, VLr(lr, grad))]
        grad_neg == VTimes(2, VSub(VAdd(E2[h_neg], R1[r_neg]), E2[t_neg]))
        E3 == [E2 EXCEPT ![h_neg] = VAdd(@, VLr(lr, grad_neg))]
        R2 == [R1 EXCEPT ![r_neg] = VAdd(@, VLr(lr, grad_neg))]
        E4 == [E3 EXCEPT ![t_neg] = VSub(@, VLr(lr, grad_neg))]
        E5 == [E4 EXCEPT ![h] = VSub(@, VLrL2(lr, @))]
        E6 == [E5 EXCEPT ![t] = VSub(@, VLrL2(lr, @))]
        E7 == [E6 EXCEPT ![h_neg] = VSub(@, VLrL2(lr, @))]
        E8 == [E7 EXCEPT ![t_neg] = VSub(@, VLrL2(lr, @))]
        R3 == [R2 EXCEPT ![r] = VSub(@, VLrL2(lr, @))]
        norm_h == Norm(E8[h])
        norm_t == Norm(E8[t])
        norm_h_neg == Norm(E8[h_neg])
        norm_t_neg == Norm(E8[t_neg])
        E9 == [E8 EXCEPT ![h] = Project(@, norm_h)]
        E10 == [E9 EXCEPT ![t] = Project(@, norm_t)]
        E11 == [E10 EXCEPT ![h_neg] = Project(@, norm_h_neg)]
        E12 == [E11 EXCEPT ![t_neg] = Project(@, norm_t_neg)]
    IN  [E |-> E12, R |-> R3, updated |-> TRUE,
         norms |-> <<norm_h, norm_t, norm_h_neg, norm_t_neg>>]

\* the gradient step taken whatever the loss is
PairStepAlways(E, R, pos, neg, ps, rel_importance, mrg, lr) ==
    GradientUpdate(E, R, pos[1], pos[2], pos[3], neg[1], neg[2], neg[3], lr)

\* lines 419-479 for one positive fact and one negative sample
PairStep(E, R, pos, neg, ps, rel_importance, mrg, lr) ==
    LET rel_weight == IF pos[2] \in DOMAIN rel_importance THEN rel_importance[pos[2]]
                      ELSE 10
        neg_score == compute_score(E[neg[1]], R[neg[2]], E[neg[3]])
    IN  IF Loss(mrg, ps, neg_score, rel_weight) > 0
        THEN GradientUpdate(E, R, pos[1], pos[2], pos[3], neg[1], neg[2], neg[3], lr)
        ELSE [E |-> E, R |-> R, updated |-> FALSE, norms |-> <<>>]

\* current_lr = initial_lr / (1 + 0.01 * epoch)
CurrentLr(initial_lr, ep) == RDiv(initial_lr * 100, 100 + ep)

\* evaluate_model_margin (lines 320-357) for one outcome of its random draws:
\* draws[(i - 1) * neg + k] is the (head?, entity) pair drawn for the k-th
\* negative of the i-th fact. The mean loss, in units of 1 / SCALE.
RECURSIVE ValLossSum(_, _, _, _, _, _, _, _)
ValLossSum(facts, E, R, rel_importance, neg, mrg, draws, j) ==
    IF j = 0 THEN 0
    ELSE LET f == facts[((j - 1) \div neg) + 1]
             rel_weight == IF f[2] \in DOMAIN rel_importance THEN rel_importance[f[2]]
                           ELSE 10
             pos == compute_score(E[f[1]], R[f[2]], E[f[3]])
             c == Corrupt(f, draws[j][1], draws[j][2])
             neg_score == compute_score(E[c[1]], R[c[2]], E[c[3]])
         IN  Loss(mrg, pos, neg_score, rel_weight)
                + ValLossSum(facts, E, R, rel_importance, neg, mrg, draws, j - 1)

evaluate_model_margin(facts, E, R, rel_importance, n, neg, mrg, draws) ==
    LET count == Len(facts) * neg
    IN  RDiv(ValLossSum(facts, E, R, rel_importance, neg, mrg, draws, count),
             10 * (IF count > 1 THEN count ELSE 1))

\* the two matrices after a call that doubles every entity row
ArraysAfterDoubling(E, R) == [E |-> [e \in DOMAIN E |-> VTimes(2, E[e])], R |-> R]

\* the two matrices after evaluate_model_margin(triples, E, R, ...): lines
\* 320-357 read rows of them and assign to none
ArraysAfterValidation(E, R) == [E |-> E, R |-> R]

\* the comparison with <= in place of <
ScoreLessOrEqual(a, b) == a # INF /\ (b = INF \/ a <= b)

\* val_score < best_val_score, with INF standing for float('inf')
ScoreLess(a, b) == a # INF /\ (b = INF \/ a < b)

\* no early-stopping test at all
StopsNever(counter, pat) == FALSE

\* the early-stopping test with > in place of >=
StopsEarlyLate(counter, pat) == counter > pat

\* line 511: patience_counter >= patience
StopsEarly(counter, pat) == counter >= pat

\* array.copy() with the copy left out: the new name refers to the same array
AliasArray(h, src, dst) == [ref |-> src, heap |-> h]

\* array.copy(): a new array, held in slot dst of the heap, equal to h[src]
CopyArray(h, src, dst) == [ref |-> dst, heap |-> [h EXCEPT ![dst] = h[src]]]

(***************************************************************************)
(* Inputs of the trainer                                                   *)
(***************************************************************************)
TrainEntities == {0, 1}
TrainRelations == {0, 1}
UnitVector(k, sign) == [i \in Coords |-> IF i = k THEN sign * SCALE ELSE 0]
\* (0.6, 0.8, 0, ...): another vector of norm 1
SlantVector == [i \in Coords |-> IF i = 1 THEN (3 * SCALE) \div 5
                                 ELSE IF i = 2 THEN (4 * SCALE) \div 5 ELSE 0]
\* initial entity matrices: every row has norm 1 (initialize_embeddings_enhanced)
TrainEntityInits ==
    { [e \in TrainEntities |-> IF e = 0 THEN SlantVector ELSE UnitVector(1, -1)] }
\* initial relation matrices: rows are not normalised
TrainRelationInits ==
    { [r \in TrainRelations |-> [i \in Coords |-> IF i = 1 THEN SCALE \div 5 ELSE -(SCALE \div 4)]] }
\* the (training facts, validation facts) pairs given to the trainer
TrainFactSplits ==
    { [train |-> << <<0, 0, 1>> >>, val |-> << <<1, 0, 0>> >>],
      [train |-> << <<0, 0, 0>> >>, val |-> << <<1, 0, 1>> >>],
      [train |-> << <<0, 0, 1>> >>, val |-> << <<1, 0, 1>> >>],
      [train |-> << <<0, 0, 1>>, <<1, 0, 0>> >>, val |-> <<>>],
      [train |-> <<>>, val |-> <<>>] }
\* relation 0 is hasInput
TrainRelationToIdx == [u \in {HAS_INPUT} |-> 0]
TrainRelationTypes == [u \in {HAS_INPUT} |-> extract_relation_type(u)]

\* margin = MARGIN = 1.0
TrainMargin == SCALE
\* the negative samples per positive fact given to the trainer
neg_samples == 1
\* the initial learning rate given to the trainer: 0.25, in units of 1 / LR_SCALE
learning_rate == 2500

Slots == {"entity", "relation", "best_entity", "best_relation"}

\* the outcomes enumerated for the random draws of one run of the validator:
\* draws[j] is the (head?, entity) pair of the j-th negative sample; the
\* negatives of one fact are all drawn alike
ValDraws(facts, n, neg) ==
    {d \in [1..(Len(facts) * neg) -> BOOLEAN \X (0..(n - 1))] :
        \A i, j \in 1..(Len(facts) * neg) :
            (i - 1) \div neg = (j - 1) \div neg => d[i] = d[j]}

(***************************************************************************)
(* train_transe_enhanced as a state machine: the start of an epoch (decay, *)
(* shuffle), one step per (positive, negative) pair, the validation at the *)
(* end of the epoch, the return                                            *)
(***************************************************************************)
TrainInit ==
    /\ \E split \in TrainFactSplits :
          train_triples = split.train /\ val_triples = split.val
    /\ triple_set = Range(train_triples)
    /\ relation_importance = RelationImportance(TrainRelationToIdx, TrainRelationTypes)
    /\ num_epochs \in {0, MaxEpochs}
    /\ patience \in 1..MaxPatience
    /\ \E E0 \in TrainEntityInits, R0 \in TrainRelationInits :
          LET h0 == [s \in Slots |-> IF s = "entity" THEN E0
                                     ELSE IF s = "relation" THEN R0 ELSE <<>>]
              c1 == CopyArray(h0, "entity", "best_entity")
              c2 == CopyArray(c1.heap, "relation", "best_relation")
          IN  /\ heap = c2.heap
              /\ best_entity_embeddings = c1.ref
              /\ best_relation_embeddings = c2.ref
              /\ live_history = << <<E0, R0>> >>
    /\ entity_embeddings = "entity"
    /\ relation_embeddings = "relation"
    /\ best_val_score = INF
    /\ patience_counter = 0
    /\ epoch = 0
    /\ fact_i = 0
    /\ neg_k = 0
    /\ pos_score = 0
    /\ val_history = <<>>
    /\ last_step = None
    /\ tr_result = None
    /\ tr_pc = "epoch"

TrainIdle ==
    /\ train_triples = <<>>
    /\ val_triples = <<>>
    /\ triple_set = {}
    /\ relation_importance = <<>>
    /\ num_epochs = 0
    /\ patience = 0
    /\ heap = <<>>
    /\ entity_embeddings = "entity"
    /\ relation_embeddings = "relation"
    /\ best_entity_embeddings = "best_entity"
    /\ best_relation_embeddings = "best_relation"
    /\ live_history = <<>>
    /\ best_val_score = INF
    /\ patience_counter = 0
    /\ epoch = 0
    /\ fact_i = 0
    /\ neg_k = 0
    /\ pos_score = 0
    /\ val_history = <<>>
    /\ last_step = None
    /\ tr_result = None
    /\ tr_pc = "idle"

\* the value train_transe_enhanced returns (line 515)
BestEmbeddings == <<heap[best_entity_embeddings], heap[best_relation_embeddings]>>
LiveEmbeddings == <<heap[entity_embeddings], heap[relation_embeddings]>>

\* lines 404-415: the next epoch starts; random.shuffle(train_triples)
TrainBeginEpoch ==
    /\ tr_pc = "epoch"
    /\ epoch < num_epochs
    /\ \E f \in Perms(Len(train_triples)) :
          train_triples' = [i \in 1..Len(train_triples) |-> train_triples[f[i]]]
    /\ fact_i' = 1
    /\ neg_k' = 1
    /\ tr_pc' = IF Len(train_triples) = 0 \/ neg_samples = 0 THEN "validate" ELSE "step"
    /\ UNCHANGED <<val_triples, triple_set, relation_importance, num_epochs, patience,
                   heap, entity_embeddings, relation_embeddings, best_entity_embeddings,
                   best_relation_embeddings, best_val_score, patience_counter, epoch,
                   pos_score, val_history, live_history, last_step, tr_result>>
    /\ UNCHANGED <<loadVars, nsVars, persistVars, rankVars, ctxVars, initVars,
                   engVars, stepVars, webVars>>

\* lines 418-479: one negative sample of one positive fact. pos_score is
\* computed once per fact (line 422), before its first negative sample.
TrainStep ==
    /\ tr_pc = "step"
    /\ LET pos == train_triples[fact_i]
           E == heap[entity_embeddings]
           R == heap[relation_embeddings]
           ps == IF neg_k = 1 THEN compute_score(E[pos[1]], R[pos[2]], E[pos[3]])
                 ELSE pos_score
       IN  /\ pos_score' = ps
           /\ \E neg \in NegativeSamples(pos, Cardinality(DOMAIN E), triple_set) :
                 LET res == PairStep(E, R, pos, neg, ps, relation_importance, TrainMargin,
                                     CurrentLr(learning_rate, epoch))
                 IN  /\ heap' = [heap EXCEPT ![entity_embeddings] = res.E,
                                             ![relation_embeddings] = res.R]
                     /\ last_step' = [pos |-> pos, neg |-> neg, updated |-> res.updated,
                                      norms |-> res.norms, before |-> LiveEmbeddings]
    /\ IF neg_k < neg_samples
       THEN neg_k' = neg_k + 1 /\ UNCHANGED <<fact_i, tr_pc>>
       ELSE /\ neg_k' = 1
            /\ fact_i' = fact_i + 1
            /\ tr_pc' = IF fact_i < Len(train_triples) THEN "step" ELSE "validate"
    /\ UNCHANGED <<train_triples, val_triples, triple_set, relation_importance, num_epochs,
                   patience, entity_embeddings, relation_embeddings,
                   best_entity_embeddings, best_relation_embeddings, best_val_score,
                   patience_counter, epoch, val_history, live_history, tr_result>>
    /\ UNCHANGED <<loadVars, nsVars, persistVars, rankVars, ctxVars, initVars,
                   engVars, stepVars, webVars>>

\* lines 486-513: the validation score, the snapshot or the patience counter,
\* and the early stop
TrainValidate ==
    /\ tr_pc = "validate"
    /\ \E draws \in ValDraws(val_triples, Cardinality(DOMAIN heap[entity_embeddings]),
                             VAL_NEG_SAMPLES) :
          LET val_score == evaluate_model_margin(val_triples, heap[entity_embeddings],
                               heap[relation_embeddings], relation_importance,
                               Cardinality(DOMAIN heap[entity_embeddings]),
                               VAL_NEG_SAMPLES, TrainMargin, draws)
              after == ArraysAfterValidation(heap[entity_embeddings],
                                             heap[relation_embeddings])
              validated == [heap EXCEPT ![entity_embeddings] = after.E,
                                        ![relation_embeddings] = after.R]
              c1 == CopyArray(validated, entity_embeddings, "best_entity")
              c2 == CopyArray(c1.heap, relation_embeddings, "best_relation")
              counter == IF ScoreLess(val_score, best_val_score) THEN 0
                         ELSE patience_counter + 1
          IN  /\ val_history' = Append(val_history, val_score)
              /\ live_history' = Append(live_history,
                                        <<validated[entity_embeddings],
                                          validated[relation_embeddings]>>)
              /\ IF ScoreLess(val_score, best_val_score)
                 THEN /\ best_val_score' = val_score
                      /\ heap' = c2.heap
                      /\ best_entity_embeddings' = c1.ref
                      /\ best_relation_embeddings' = c2.ref
                 ELSE /\ heap' = validated
                      /\ UNCHANGED <<best_val_score, best_entity_embeddings,
                                     best_relation_embeddings>>
              /\ patience_counter' = counter
              /\ IF StopsEarly(counter, patience)
                 THEN /\ tr_pc' = "returned"
                      /\ tr_result' = <<heap'[best_entity_embeddings'],
                                        heap'[best_relation_embeddings']>>
                 ELSE /\ tr_pc' = "epoch"
                      /\ UNCHANGED tr_result
    /\ epoch' = epoch + 1
    /\ UNCHANGED <<train_triples, val_triples, triple_set, relation_importance, num_epochs,
                   patience, entity_embeddings, relation_embeddings, fact_i, neg_k,
                   pos_score, last_step>>
    /\ UNCHANGED <<loadVars, nsVars, persistVars, rankVars, ctxVars, initVars,
                   engVars, stepVars, webVars>>

\* line 515 after the last epoch of the cap
TrainReturn ==
    /\ tr_pc = "epoch"
    /\ epoch >= num_epochs
    /\ tr_pc' = "returned"
    /\ tr_result' = BestEmbeddings
    /\ UNCHANGED <<train_triples, val_triples, triple_set, relation_importance, num_epochs,
                   patience, heap, entity_embeddings, relation_embeddings,
                   best_entity_embeddings, best_relation_embeddings, best_val_score,
                   patience_counter, epoch, fact_i, neg_k, pos_score, val_history,
                   live_history, last_step>>
    /\ UNCHANGED <<loadVars, nsVars, persistVars, rankVars, ctxVars, initVars,
                   engVars, stepVars, webVars>>

NextTrain == TrainBeginEpoch \/ TrainStep \/ TrainValidate \/ TrainReturn

(***************************************************************************)
(* load_kg_triples as a state machine: one step per input line, then the   *)
(* summary and the index maps                                              *)
(***************************************************************************)
LoadInit ==
    /\ lines \in LineFiles
    /\ line_num = 0
    /\ triples = <<>>
    /\ entities = {}
    /\ relations = {}
    /\ entity_types = <<>>
    /\ relation_types = <<>>
    /\ filtered_count = 0
    /\ kept_count = 0
    /\ entity_to_idx = <<>>
    /\ relation_to_idx = <<>>
    /\ indexed_triples = <<>>
    /\ load_pc = "loop"

\* the loader's variables when another component is run on its own
LoadIdle ==
    /\ lines = <<>>
    /\ line_num = 0
    /\ triples = <<>>
    /\ entities = {}
    /\ relations = {}
    /\ entity_types = <<>>
    /\ relation_types = <<>>
    /\ filtered_count = 0
    /\ kept_count = 0
    /\ entity_to_idx = <<>>
    /\ relation_to_idx = <<>>
    /\ indexed_triples = <<>>
    /\ load_pc = "idle"

\* d[k] = v on a dict modelled as a function
DictSet(d, k, v) == [x \in (DOMAIN d) \cup {k} |-> IF x = k THEN v ELSE d[x]]

\* one iteration of the for loop over the file (lines 157-199)
LoadLine ==
    /\ load_pc = "loop"
    /\ line_num < Len(lines)
    /\ line_num' = line_num + 1
    /\ LET line == lines[line_num + 1]
           triple == parse_nt_line(line)
           decision == FilterDecision(line)
       IN  /\ filtered_count' = IF decision = "filtered" THEN filtered_count + 1
                                ELSE filtered_count
           /\ kept_count' = IF decision = "keep" THEN kept_count + 1 ELSE kept_count
           /\ triples' = IF decision = "keep" THEN Append(triples, triple) ELSE triples
           /\ entities' = IF decision = "keep" THEN entities \cup {triple[1], triple[3]}
                          ELSE entities
           /\ relations' = IF decision = "keep" THEN relations \cup {triple[2]}
                           ELSE relations
           /\ entity_types' =
                 IF decision = "keep"
                 THEN DictSet(DictSet(entity_types, triple[1], extract_entity_type(triple[1])),
                              triple[3], extract_entity_type(triple[3]))
                 ELSE entity_types
           /\ relation_types' =
                 IF decision = "keep"
                 THEN DictSet(relation_types, triple[2], extract_relation_type(triple[2]))
                 ELSE relation_types
    /\ UNCHANGED <<lines, entity_to_idx, relation_to_idx, indexed_triples, load_pc>>
    /\ UNCHANGED <<nsVars, trainVars, persistVars, rankVars, ctxVars, initVars,
                   engVars, stepVars, webVars>>

\* after the loop: the filtering summary (lines 201-205) and the index maps
\* (lines 207-217). line_num is unbound when the file has no line, and the
\* filter rate divides by kept_count + filtered_count.
LoadFinish ==
    /\ load_pc = "loop"
    /\ line_num = Len(lines)
    /\ IF Len(lines) = 0
       THEN /\ load_pc' = "UnboundLocalError"
            /\ UNCHANGED <<entity_to_idx, relation_to_idx, indexed_triples>>
       ELSE IF kept_count + filtered_count = 0
       THEN /\ load_pc' = "ZeroDivisionError"
            /\ UNCHANGED <<entity_to_idx, relation_to_idx, indexed_triples>>
       ELSE /\ load_pc' = "returned"
            /\ entity_to_idx' = IndexMap(entities)
            /\ relation_to_idx' = IndexMap(relations)
            /\ indexed_triples' =
                  [i \in 1..Len(triples) |->
                      <<IndexMap(entities)[triples[i][1]],
                        IndexMap(relations)[triples[i][2]],
                        IndexMap(entities)[triples[i][3]]>>]
    /\ UNCHANGED <<lines, line_num, triples, entities, relations, entity_types,
                   relation_types, filtered_count, kept_count>>
    /\ UNCHANGED <<nsVars, trainVars, persistVars, rankVars, ctxVars, initVars,
                   engVars, stepVars, webVars>>

NextLoad == LoadLine \/ LoadFinish

(***************************************************************************)
(* Text of the artifacts: formatting (f-strings) and parsing (strip,       *)
(* split, int)                                                             *)
(***************************************************************************)
Digits == <<"0","1","2","3","4","5","6","7","8","9">>
Whitespace == {" ", "\t", "\n"}

\* f"{n}" for an int n >= 0: its decimal digits
RECURSIVE IntToStr(_)
IntToStr(n) ==
    IF n < 10 THEN <<Digits[n + 1]>>
    ELSE IntToStr(n \div 10) \o <<Digits[(n % 10) + 1]>>

\* whether int(s) accepts s: here, a non-empty run of decimal digits
IsInt(s) ==
    /\ s # <<>>
    /\ \A i \in 1..Len(s) : \E d \in 1..10 : Digits[d] = s[i]

DigitValue(c) == (CHOOSE d \in 1..10 : Digits[d] = c) - 1

\* int(s) for an accepted s
RECURSIVE ParseInt(_)
ParseInt(s) ==
    IF Len(s) = 1 THEN DigitValue(s[1])
    ELSE 10 * ParseInt(SubSeq(s, 1, Len(s) - 1)) + DigitValue(s[Len(s)])

\* s.strip()
Strip(s) ==
    LET solid == {i \in 1..Len(s) : s[i] \notin Whitespace}
    IN  IF solid = {} THEN <<>> ELSE SubSeq(s, MinOf(solid), MaxOf(solid))

\* s.split(sep) for a one-character separator
RECURSIVE Split(_, _)
Split(s, sep) ==
    LET at == {i \in 1..Len(s) : s[i] = sep}
    IN  IF at = {} THEN <<s>>
        ELSE <<SubSeq(s, 1, MinOf(at) - 1)>>
                 \o Split(SubSeq(s, MinOf(at) + 1, Len(s)), sep)

\* sep.join(fields)
RECURSIVE Join(_, _)
Join(fields, sep) ==
    IF Len(fields) = 0 THEN <<>>
    ELSE IF Len(fields) = 1 THEN fields[1]
    ELSE fields[1] \o <<sep>> \o Join(Tail(fields), sep)

\* a row of a text table as written: the fields, tab-separated, then "\n"
Row(fields) == Join(fields, "\t") \o <<"\n">>

\* the text of an entity type
EntityTypeText(entity_type) ==
    CASE entity_type = "Boxology" -> <<"B","o","x","o","l","o","g","y">>
      [] entity_type = "DesignPattern" ->
             <<"D","e","s","i","g","n","P","a","t","t","e","r","n">>
      [] entity_type = "Component" -> <<"C","o","m","p","o","n","e","n","t">>
      [] OTHER -> <<"U","n","k","n","o","w","n">>

(***************************************************************************)
(* JSONEmbed.py main(): the artifacts written (lines 575-607)              *)
(***************************************************************************)
\* the array header np.save puts before the data (magic string, version,
\* header length, dtype / order / shape dict, padded to a multiple of 64
\* bytes): 128 bytes for a two-dimensional float32 array, that is 32 words
\* of 4 bytes
NPY_HEADER_WORDS == 32

\* the header, read as float32 words
NpyHeader == [i \in 1..NPY_HEADER_WORDS |-> "npy"]

\* the rows of an n-row matrix one after the other (row-major order)
RECURSIVE RowMajor(_, _)
RowMajor(M, n) ==
    IF n = 0 THEN <<>>
    ELSE RowMajor(M, n - 1) \o [i \in 1..Dim |-> M[n - 1][i]]

\* np.save(path, M), lines 577-578: the header, then the data words
NpySave(M, n) == NpyHeader \o RowMajor(M, n)

ENTITY_MAP_HEADER == <<"i","d","x","\t","U","R","I","\t","l","a","b","e","l","\t","t","y","p","e","\n">>
RELATION_MAP_HEADER == <<"i","d","x","\t","U","R","I","\t","l","a","b","e","l","\t","t","y","p","e","\t","w","e","i","g","h","t","\n">>
TRIPLES_HEADER == <<"h","e","a","d","\t","r","e","l","a","t","i","o","n","\t","t","a","i","l","\n">>

\* f"{weight}" of RELATION_WEIGHTS.get(relation_type, 1.0): "2.0", "1.8", ...
WeightText(rel_type) ==
    IntToStr(RelationWeight(rel_type) \div 10) \o <<".">>
        \o IntToStr(RelationWeight(rel_type) % 10)

\* lines 585-591: the entity map
EntityMapFile(ent_to_idx, ent_types) ==
    <<ENTITY_MAP_HEADER>> \o
    [i \in 1..Cardinality(DOMAIN ent_to_idx) |->
        LET entity == UriOfIndex(ent_to_idx, i - 1)
        IN  Row(<<IntToStr(i - 1), entity, extract_label_from_uri(entity),
                  EntityTypeText(ent_types[entity])>>)]

\* lines 594-601: the relation map
RelationMapFile(rel_to_idx, rel_types) ==
    <<RELATION_MAP_HEADER>> \o
    [i \in 1..Cardinality(DOMAIN rel_to_idx) |->
        LET relation == UriOfIndex(rel_to_idx, i - 1)
        IN  Row(<<IntToStr(i - 1), relation, extract_label_from_uri(relation),
                  rel_types[relation], WeightText(rel_types[relation])>>)]

\* lines 604-607: the fact table
TriplesFile(facts) ==
    <<TRIPLES_HEADER>> \o
    [i \in 1..Len(facts) |->
        Row(<<IntToStr(facts[i][1]), IntToStr(facts[i][2]), IntToStr(facts[i][3])>>)]

(***************************************************************************)
(* KGRAG.py: the artifact loaders                                          *)
(***************************************************************************)
\* what a call gave: a value, or the exception it raised
Returned(v) == [status |-> "returned", value |-> v]
Raised(exc) == [status |-> exc, value |-> None]
NotCalled == [status |-> "not called", value |-> None]

\* load_embeddings(), lines 90-98: each file as one flat array of float32
load_embeddings(entity_file, relation_file) ==
    Returned([entity_embeddings |-> entity_file,
              relation_embeddings |-> relation_file])

\* the loop of load_entity_map from line i on (lines 108-116)
RECURSIVE EntityMapLoop(_, _, _)
EntityMapLoop(file, i, acc) ==
    IF i > Len(file) THEN Returned(acc)
    ELSE LET parts == Split(Strip(file[i]), "\t") IN
         IF Len(parts) >= 3
         THEN IF ~IsInt(parts[1]) THEN Raised("ValueError")
              ELSE LET idx == ParseInt(parts[1]) IN
                   EntityMapLoop(file, i + 1,
                       [idx_to_uri |-> DictSet(acc.idx_to_uri, idx, parts[2]),
                        uri_to_idx |-> DictSet(acc.uri_to_idx, parts[2], idx),
                        idx_to_label |-> DictSet(acc.idx_to_label, idx, parts[3])])
         ELSE EntityMapLoop(file, i + 1, acc)

\* load_entity_map(), lines 101-118
load_entity_map(file) ==
    EntityMapLoop(file, 1, [idx_to_uri |-> <<>>, uri_to_idx |-> <<>>,
                            idx_to_label |-> <<>>])

\* the loop of load_relation_map from line i on (lines 127-134)
RECURSIVE RelationMapLoop(_, _, _)
RelationMapLoop(file, i, acc) ==
    IF i > Len(file) THEN Returned(acc)
    ELSE LET parts == Split(Strip(file[i]), "\t") IN
         IF Len(parts) >= 3
         THEN IF ~IsInt(parts[1]) THEN Raised("ValueError")
              ELSE LET idx == ParseInt(parts[1]) IN
                   RelationMapLoop(file, i + 1,
                       [idx_to_uri |-> DictSet(acc.idx_to_uri, idx, parts[2]),
                        idx_to_label |-> DictSet(acc.idx_to_label, idx, parts[3])])
         ELSE RelationMapLoop(file, i + 1, acc)

\* load_relation_map(), lines 121-136
load_relation_map(file) ==
    RelationMapLoop(file, 1, [idx_to_uri |-> <<>>, idx_to_label |-> <<>>])

\* the loop of load_triples from line i on (lines 143-147)
RECURSIVE TriplesLoop(_, _, _)
TriplesLoop(file, i, acc) ==
    IF i > Len(file) THEN Returned(acc)
    ELSE LET parts == Split(Strip(file[i]), "\t") IN
         IF Len(parts) = 3
         THEN IF ~(IsInt(parts[1]) /\ IsInt(parts[2]) /\ IsInt(parts[3]))
              THEN Raised("ValueError")
              ELSE TriplesLoop(file, i + 1,
                       Append(acc, <<ParseInt(parts[1]), ParseInt(parts[2]),
                                     ParseInt(parts[3])>>))
         ELSE TriplesLoop(file, i + 1, acc)

\* load_triples(), lines 139-148
load_triples(file) == TriplesLoop(file, 1, <<>>)

\* flat.reshape(count, Dim), lines 320-321: the matrix whose rows are the
\* consecutive runs of Dim words; an error unless there are count * Dim words
Reshape(flat, count) ==
    IF Len(flat) # count * Dim THEN Raised("ValueError")
    ELSE Returned([e \in 0..(count - 1) |->
                      [i \in 1..Dim |-> flat[e * Dim + i]]])

\* KGRAG.__init__, lines 312-321: the four loads in the order of the code,
\* then the two reshapes; the first exception ends the construction
EngineInit(fs) ==
    LET emb == load_embeddings(fs.entity_embeddings, fs.relation_embeddings)
        ents == load_entity_map(fs.entity_map)
        rels == load_relation_map(fs.relation_map)
        facts == load_triples(fs.triples)
    IN  IF ents.status # "returned" THEN Raised(ents.status)
        ELSE IF rels.status # "returned" THEN Raised(rels.status)
        ELSE IF facts.status # "returned" THEN Raised(facts.status)
        ELSE LET num_entities == Cardinality(DOMAIN ents.value.idx_to_label)
                 num_relations == Cardinality(DOMAIN rels.value.idx_to_label)
                 E == Reshape(emb.value.entity_embeddings, num_entities)
                 R == Reshape(emb.value.relation_embeddings, num_relations)
             IN  IF E.status # "returned" THEN Raised(E.status)
                 ELSE IF R.status # "returned" THEN Raised(R.status)
                 ELSE Returned([entity_embeddings |-> E.value,
                                relation_embeddings |-> R.value,
                                entity_idx_to_uri |-> ents.value.idx_to_uri,
                                entity_uri_to_idx |-> ents.value.uri_to_idx,
                                entity_idx_to_label |-> ents.value.idx_to_label,
                                relation_idx_to_uri |-> rels.value.idx_to_uri,
                                relation_idx_to_label |-> rels.value.idx_to_label,
                                triples |-> facts.value])

(***************************************************************************)
(* Inputs of the persistence step: the facts the loader kept, in the order *)
(* of the list main() holds after the in-place shuffle of the split        *)
(***************************************************************************)
PersistSubjects == { <<"x","/","a">>, <<"B">> }
PersistObjects == { <<"x","/","a">>, <<"y","#","a">> }
PersistPredicates == {HAS_INPUT, HAS_OUTPUT}
PersistFacts ==
    UNION {[1..n -> PersistSubjects \X PersistPredicates \X PersistObjects] :
              n \in 0..MaxPersistFacts}

\* the trained matrix of n rows: row e holds the values e * Dim + 1 .. e * Dim + Dim
TrainedMatrix(n) == [e \in 0..(n - 1) |-> [i \in 1..Dim |-> e * Dim + i]]

(***************************************************************************)
(* Persistence and load-back as a state machine: main() writes the five    *)
(* artifacts, then the loaders and the engine's constructor read them      *)
(***************************************************************************)
PersistInit ==
    /\ kept_facts \in PersistFacts
    /\ main_entity_to_idx = IndexMap({kept_facts[i][1] : i \in DOMAIN kept_facts}
                                     \cup {kept_facts[i][3] : i \in DOMAIN kept_facts})
    /\ main_relation_to_idx = IndexMap({kept_facts[i][2] : i \in DOMAIN kept_facts})
    /\ main_indexed_triples =
          [i \in DOMAIN kept_facts |->
              <<main_entity_to_idx[kept_facts[i][1]],
                main_relation_to_idx[kept_facts[i][2]],
                main_entity_to_idx[kept_facts[i][3]]>>]
    /\ main_entity_embeddings = TrainedMatrix(Cardinality(DOMAIN main_entity_to_idx))
    /\ main_relation_embeddings = TrainedMatrix(Cardinality(DOMAIN main_relation_to_idx))
    /\ files = None
    /\ ret_load_embeddings = NotCalled
    /\ ret_load_entity_map = NotCalled
    /\ ret_load_relation_map = NotCalled
    /\ ret_load_triples = NotCalled
    /\ engine = NotCalled
    /\ persist_pc = "trained"

\* the persistence variables when another component is run on its own
PersistIdle ==
    /\ kept_facts = <<>>
    /\ main_entity_to_idx = <<>>
    /\ main_relation_to_idx = <<>>
    /\ main_indexed_triples = <<>>
    /\ main_entity_embeddings = <<>>
    /\ main_relation_embeddings = <<>>
    /\ files = None
    /\ ret_load_embeddings = NotCalled
    /\ ret_load_entity_map = NotCalled
    /\ ret_load_relation_map = NotCalled
    /\ ret_load_triples = NotCalled
    /\ engine = NotCalled
    /\ persist_pc = "idle"

\* main(), lines 575-607: the five artifacts
SaveOutputs ==
    /\ persist_pc = "trained"
    /\ files' =
          [entity_embeddings |->
               NpySave(main_entity_embeddings, Cardinality(DOMAIN main_entity_to_idx)),
           relation_embeddings |->
               NpySave(main_relation_embeddings, Cardinality(DOMAIN main_relation_to_idx)),
           entity_map |->
               EntityMapFile(main_entity_to_idx,
                             [u \in DOMAIN main_entity_to_idx |-> extract_entity_type(u)]),
           relation_map |->
               RelationMapFile(main_relation_to_idx,
                               [p \in DOMAIN main_relation_to_idx |->
                                   extract_relation_type(p)]),
           triples |-> TriplesFile(main_indexed_triples)]
    /\ persist_pc' = "written"
    /\ UNCHANGED <<kept_facts, main_entity_to_idx, main_relation_to_idx,
                   main_indexed_triples, main_entity_embeddings,
                   main_relation_embeddings, ret_load_embeddings, ret_load_entity_map,
                   ret_load_relation_map, ret_load_triples, engine>>
    /\ UNCHANGED <<loadVars, nsVars, trainVars, rankVars, ctxVars, initVars,
                   engVars, stepVars, webVars>>

\* a call of load_embeddings() on the written artifacts
CallLoadEmbeddings ==
    /\ persist_pc = "written"
    /\ ret_load_embeddings .status = "not called"
    /\ ret_load_embeddings' =
          load_embeddings(files.entity_embeddings, files.relation_embeddings)
    /\ UNCHANGED <<mainVars, ret_load_entity_map, ret_load_relation_map,
                   ret_load_triples, engine>>
    /\ UNCHANGED <<loadVars, nsVars, trainVars, rankVars, ctxVars, initVars,
                   engVars, stepVars, webVars>>

\* a call of load_entity_map() on the written artifact
CallLoadEntityMap ==
    /\ persist_pc = "written"
    /\ ret_load_entity_map.status = "not called"
    /\ ret_load_entity_map' = load_entity_map(files.entity_map)
    /\ UNCHANGED <<mainVars, ret_load_embeddings, ret_load_relation_map,
                   ret_load_triples, engine>>
    /\ UNCHANGED <<loadVars, nsVars, trainVars, rankVars, ctxVars, initVars,
                   engVars, stepVars, webVars>>

\* a call of load_relation_map() on the written artifact
CallLoadRelationMap ==
    /\ persist_pc = "written"
    /\ ret_load_relation_map.status = "not called"
    /\ ret_load_relation_map' = load_relation_map(files.relation_map)
    /\ UNCHANGED <<mainVars, ret_load_embeddings, ret_load_entity_map,
                   ret_load_triples, engine>>
    /\ UNCHANGED <<loadVars, nsVars, trainVars, rankVars, ctxVars, initVars,
                   engVars, stepVars, webVars>>

\* a call of load_triples() on the written artifact
CallLoadTriples ==
    /\ persist_pc = "written"
    /\ ret_load_triples.status = "not called"
    /\ ret_load_triples' = load_triples(files.triples)
    /\ UNCHANGED <<mainVars, ret_load_embeddings, ret_load_entity_map,
                   ret_load_relation_map, engine>>
    /\ UNCHANGED <<loadVars, nsVars, trainVars, rankVars, ctxVars, initVars,
                   engVars, stepVars, webVars>>

\* KGRAG() on the written artifacts
ConstructEngine ==
    /\ persist_pc = "written"
    /\ engine.status = "not called"
    /\ engine' = EngineInit(files)
    /\ UNCHANGED <<mainVars, ret_load_embeddings, ret_load_entity_map,
                   ret_load_relation_map, ret_load_triples>>
    /\ UNCHANGED <<loadVars, nsVars, trainVars, rankVars, ctxVars, initVars,
                   engVars, stepVars, webVars>>

NextPersist ==
    \/ SaveOutputs
    \/ CallLoadEmbeddings
    \/ CallLoadEntityMap
    \/ CallLoadRelationMap
    \/ CallLoadTriples
    \/ ConstructEngine

(***************************************************************************)
(* KGRAG.py: find_similar_entities                                         *)
(***************************************************************************)
\* set(s.split()): the maximal runs of non-whitespace characters of s
Words(s) ==
    {SubSeq(s, i, j) : <<i, j>> \in
        {p \in (1..Len(s)) \X (1..Len(s)) :
            /\ p[1] <= p[2]
            /\ \A k \in p[1]..p[2] : s[k] \notin Whitespace
            /\ (p[1] = 1 \/ s[p[1] - 1] \in Whitespace)
            /\ (p[2] = Len(s) \/ s[p[2] + 1] \in Whitespace)}}

\* a score as the fraction <<numerator, denominator>>: 1.0, 0.8, 0.6 are
\* <<10, 10>>, <<8, 10>>, <<6, 10>> and 0.4 * overlap / m is <<4 * overlap, 10 * m>>
ScoreGreater(a, b) == a[1] * b[2] > b[1] * a[2]

\* the branches of lines 222-238 with the substring test put before the
\* equality test
LabelScoreSubstringFirst(query_lower, label_lower) ==
    IF Contains(label_lower, query_lower) THEN <<8, 10>>
    ELSE IF query_lower = label_lower THEN <<10, 10>>
    ELSE IF Contains(query_lower, label_lower) THEN <<6, 10>>
    ELSE LET query_words == Words(query_lower)
             label_words == Words(label_lower)
             overlap == Cardinality(query_words \cap label_words)
         IN  IF overlap > 0
             THEN <<4 * overlap,
                    10 * MaxOf({Cardinality(query_words), Cardinality(label_words)})>>
             ELSE None

\* lines 222-238: the score one label gets, None when nothing is appended
LabelScore(query_lower, label_lower) ==
    IF query_lower = label_lower THEN <<10, 10>>
    ELSE IF Contains(label_lower, query_lower) THEN <<8, 10>>
    ELSE IF Contains(query_lower, label_lower) THEN <<6, 10>>
    ELSE LET query_words == Words(query_lower)
             label_words == Words(label_lower)
             overlap == Cardinality(query_words \cap label_words)
         IN  IF overlap > 0
             THEN <<4 * overlap,
                    10 * MaxOf({Cardinality(query_words), Cardinality(label_words)})>>
             ELSE None

\* lines 218-238: the list scores after the loop over entity_labels.items(),
\* from index idx on (the dict holds the indices 0..n-1 in that order)
RECURSIVE ScoreLoop(_, _, _)
ScoreLoop(query_lower, labels, idx) ==
    IF idx \notin DOMAIN labels THEN <<>>
    ELSE LET sc == LabelScore(query_lower, Lower(labels[idx]))
         IN  (IF sc = None THEN <<>> ELSE << <<idx, sc>> >>)
                 \o ScoreLoop(query_lower, labels, idx + 1)

\* s without its i-th element
RemoveAt(s, i) == SubSeq(s, 1, i - 1) \o SubSeq(s, i + 1, Len(s))

\* scores.sort(key=lambda x: x[1]) without reverse=True: ascending, stable
RECURSIVE SortAscending(_)
SortAscending(s) ==
    IF s = <<>> THEN <<>>
    ELSE LET i == MinOf({k \in 1..Len(s) :
                            \A j \in 1..Len(s) : ~ScoreGreater(s[k][2], s[j][2])})
         IN  <<s[i]>> \o SortAscending(RemoveAt(s, i))

\* a descending sort that is not stable: of equal scores the last comes first
RECURSIVE SortDescendingLastTie(_)
SortDescendingLastTie(s) ==
    IF s = <<>> THEN <<>>
    ELSE LET i == MaxOf({k \in 1..Len(s) :
                            \A j \in 1..Len(s) : ~ScoreGreater(s[j][2], s[k][2])})
         IN  <<s[i]>> \o SortDescendingLastTie(RemoveAt(s, i))

\* scores.sort(key=lambda x: x[1], reverse=True), line 240: descending by
\* score, entries of equal score kept in their order (the sort is stable)
RECURSIVE SortDescending(_)
SortDescending(s) ==
    IF s = <<>> THEN <<>>
    ELSE LET i == MinOf({k \in 1..Len(s) :
                            \A j \in 1..Len(s) : ~ScoreGreater(s[j][2], s[k][2])})
         IN  <<s[i]>> \o SortDescending(RemoveAt(s, i))

\* a list that outlives the call: what it held is still there
KeptList(previous) == previous

\* scores = [], line 218: the list of a call starts empty, whatever an
\* earlier call computed
FreshList(previous) == <<>>

\* s[:k] for k >= 0
Take(s, k) == SubSeq(s, 1, IF k < Len(s) THEN k ELSE Len(s))

(***************************************************************************)
(* Inputs of the ranking                                                   *)
(***************************************************************************)
RankLabelPool ==
    { <<"A">>, <<"A"," ","b">>, <<"b"," ","a">>, <<"b"," ","c">>, <<"c">> }
RankQueryPool ==
    { <<"a">>, <<"a"," ","B">>, <<"c"," ","b">>, <<"a"," ","b"," ","c">>, <<>> }
RankLabelMaps == UNION {[0..(n - 1) -> RankLabelPool] : n \in 0..MaxRankEntities}

(***************************************************************************)
(* find_similar_entities as a state machine: the call, then the return     *)
(***************************************************************************)
RankInit ==
    /\ query_text \in RankQueryPool
    /\ entity_labels \in RankLabelMaps
    /\ top_k \in (0..MaxTopK) \cup {TOP_K}
    /\ rank_embeddings = TrainedMatrix(Cardinality(DOMAIN entity_labels))
    /\ scores = <<>>
    /\ rank_result = <<>>
    /\ rank_again = <<>>
    /\ rank_pc = "called"

\* the ranking variables when another component is run on its own
RankIdle ==
    /\ query_text = <<>>
    /\ entity_labels = <<>>
    /\ top_k = 0
    /\ rank_embeddings = <<>>
    /\ scores = <<>>
    /\ rank_result = <<>>
    /\ rank_again = <<>>
    /\ rank_pc = "idle"

\* find_similar_entities, lines 211-241
FindSimilarEntities ==
    /\ rank_pc = "called"
    /\ scores' = SortDescending(FreshList(scores)
                                    \o ScoreLoop(Lower(query_text), entity_labels, 0))
    /\ rank_result' = Take(scores', top_k)
    /\ rank_pc' = "returned"
    /\ UNCHANGED <<query_text, entity_labels, top_k, rank_embeddings, rank_again>>
    /\ UNCHANGED <<loadVars, nsVars, trainVars, persistVars, ctxVars, initVars,
                   engVars, stepVars, webVars>>

\* a second call of find_similar_entities with the same arguments
FindSimilarEntitiesAgain ==
    /\ rank_pc = "returned"
    /\ scores' = SortDescending(FreshList(scores)
                                    \o ScoreLoop(Lower(query_text), entity_labels, 0))
    /\ rank_again' = Take(scores', top_k)
    /\ rank_pc' = "returned twice"
    /\ UNCHANGED <<query_text, entity_labels, top_k, rank_embeddings, rank_result>>
    /\ UNCHANGED <<loadVars, nsVars, trainVars, persistVars, ctxVars, initVars,
                   engVars, stepVars, webVars>>

NextRank == FindSimilarEntities \/ FindSimilarEntitiesAgain

(***************************************************************************)
(* build_entity_context (KGRAG.py): the text that describes an entity by   *)
(* the facts it takes part in                                              *)
(***************************************************************************)
\* the character U+2192 of the f-strings of lines 178 and 182, one element of
\* the text
ARROW == "->"

\* sep.join(fields) for a separator of any length
RECURSIVE JoinWith(_, _)
JoinWith(fields, sep) ==
    IF Len(fields) = 0 THEN <<>>
    ELSE IF Len(fields) = 1 THEN fields[1]
    ELSE fields[1] \o sep \o JoinWith(Tail(fields), sep)

\* relation_labels.get(r, f"rel_{r}")
RelationLabelOf(relation_labels, r) ==
    IF r \in DOMAIN relation_labels THEN relation_labels[r]
    ELSE <<"r","e","l","_">> \o IntToStr(r)

\* entity_labels.get(e, f"entity_{e}")
EntityLabelOf(labels, e) ==
    IF e \in DOMAIN labels THEN labels[e]
    ELSE <<"e","n","t","i","t","y","_">> \o IntToStr(e)

\* f"{rel} -> {tail}", line 178
OutgoingText(labels, relation_labels, fact) ==
    RelationLabelOf(relation_labels, fact[2]) \o <<" ", ARROW, " ">>
        \o EntityLabelOf(labels, fact[3])

\* f"{head} -> {rel}", line 182
IncomingText(labels, relation_labels, fact) ==
    EntityLabelOf(labels, fact[1]) \o <<" ", ARROW, " ">>
        \o RelationLabelOf(relation_labels, fact[2])

\* the loop of lines 174-182 from fact i on: the lists outgoing and incoming
RECURSIVE ContextLoop(_, _, _, _, _, _, _)
ContextLoop(entity_idx, facts, labels, relation_labels, i, outgoing, incoming) ==
    IF i > Len(facts) THEN [outgoing |-> outgoing, incoming |-> incoming]
    ELSE IF facts[i][1] = entity_idx
    THEN ContextLoop(entity_idx, facts, labels, relation_labels, i + 1,
                     Append(outgoing, OutgoingText(labels, relation_labels, facts[i])),
                     incoming)
    ELSE IF facts[i][3] = entity_idx
    THEN ContextLoop(entity_idx, facts, labels, relation_labels, i + 1,
                     outgoing,
                     Append(incoming, IncomingText(labels, relation_labels, facts[i])))
    ELSE ContextLoop(entity_idx, facts, labels, relation_labels, i + 1,
                     outgoing, incoming)

\* lines 184-192: the entity's name, then each list that is not empty, cut
\* to CONTEXT_LIST_CAP entries
ContextText(entity_name, outgoing, incoming) ==
    JoinWith(
        << <<"E","n","t","i","t","y",":"," ">> \o entity_name >>
        \o (IF outgoing # <<>>
            THEN << <<"R","e","l","a","t","i","o","n","s","h","i","p","s",":"," ">>
                    \o JoinWith(Take(outgoing, CONTEXT_LIST_CAP), <<";"," ">>) >>
            ELSE <<>>)
        \o (IF incoming # <<>>
            THEN << <<"R","e","l","a","t","e","d"," ","b","y",":"," ">>
                    \o JoinWith(Take(incoming, CONTEXT_LIST_CAP), <<";"," ">>) >>
            ELSE <<>>),
        <<" ","|"," ">>)

\* Inputs: two entities A and X, X labelled RawData or without a label; the
\* relation hasInput and a relation without a label
ContextEntities == 0..1

ContextEntityLabelMaps ==
    { (0 :> <<"A">>) @@ (1 :> <<"R","a","w","D","a","t","a">>),
      (0 :> <<"A">>) }

ContextRelationLabels == (0 :> <<"h","a","s","I","n","p","u","t">>)

ContextFactPool == { <<0, 0, 1>>, <<1, 0, 0>>, <<0, 0, 0>>, <<0, 1, 1>> }

ContextFactLists ==
    UNION {[1..n -> ContextFactPool] : n \in 0..MaxContextFacts}

ContextInit ==
    /\ ctx_entity_idx \in ContextEntities
    /\ ctx_triples \in ContextFactLists
    /\ ctx_entity_labels \in ContextEntityLabelMaps
    /\ ctx_relation_labels = ContextRelationLabels
    /\ ctx_outgoing = <<>>
    /\ ctx_incoming = <<>>
    /\ ctx_result = None
    /\ ctx_pc = "called"

ContextIdle ==
    /\ ctx_entity_idx = 0
    /\ ctx_triples = <<>>
    /\ ctx_entity_labels = <<>>
    /\ ctx_relation_labels = <<>>
    /\ ctx_outgoing = <<>>
    /\ ctx_incoming = <<>>
    /\ ctx_result = None
    /\ ctx_pc = "idle"

\* build_entity_context(entity_idx, triples, entity_labels, relation_labels)
BuildEntityContext ==
    /\ ctx_pc = "called"
    /\ LET lists == ContextLoop(ctx_entity_idx, ctx_triples, ctx_entity_labels,
                                ctx_relation_labels, 1, <<>>, <<>>)
       IN  /\ ctx_outgoing' = lists.outgoing
           /\ ctx_incoming' = lists.incoming
           /\ ctx_result' = ContextText(EntityLabelOf(ctx_entity_labels, ctx_entity_idx),
                                        lists.outgoing, lists.incoming)
    /\ ctx_pc' = "returned"
    /\ UNCHANGED <<ctx_entity_idx, ctx_triples, ctx_entity_labels, ctx_relation_labels>>
    /\ UNCHANGED <<loadVars, nsVars, trainVars, persistVars, rankVars, initVars,
                   engVars, stepVars, webVars>>

NextContext == BuildEntityContext

(***************************************************************************)
(* initialize_embeddings_enhanced (JSONEmbed.py)                           *)
(***************************************************************************)
\* np.sqrt(6.0 / (n + dim)), in units of 1 / SCALE
XavierBound(n) == ISqrt((XAVIER_NUMERATOR * SCALE * SCALE) \div (n + Dim))

\* ENTITY_TYPE_IMPORTANCE.get(entity_type, 1.0), in tenths
EntityTypeImportance(entity_type) ==
    IF entity_type = "Boxology" THEN 15
    ELSE IF entity_type = "DesignPattern" THEN 14
    ELSE IF entity_type = "Component" THEN 13
    ELSE 10

\* row *= factor, for a factor in tenths
VScaleTenths(v, factor) == [i \in Coords |-> RDiv(v[i] * factor, 10)]

\* lines 248-253: every entity row times the importance of the entity's
\* type, "Unknown" for an entity without a type
ScaleEntityRows(E, type_of) ==
    [idx \in DOMAIN E |->
        VScaleTenths(E[idx],
            EntityTypeImportance(IF idx \in DOMAIN type_of
                                 THEN type_of[idx] ELSE "Unknown"))]

\* lines 256-261: every relation row times the weight of the relation's
\* type, "other" for a relation without a type
ScaleRelationRows(R, rel_types) ==
    [idx \in DOMAIN R |->
        VScaleTenths(R[idx],
            RelationWeight(IF idx \in DOMAIN rel_types
                           THEN rel_types[idx] ELSE <<"o","t","h","e","r">>))]

\* the entity matrix left as it is
KeepRows(E) == E

\* line 264: every row divided by (its norm + 1e-10)
NormalizeRows(E) == [idx \in DOMAIN E |-> VDiv(E[idx], Norm(E[idx]) + NORM_GUARD)]

\* Inputs. The coordinates np.random.uniform(-bound, bound) can draw, here
\* three of them; a row that is zero in every coordinate (every one of the
\* dim draws exactly 0.0) is not among the rows drawn
InitCoordinatePool == {-600, 50, 800}

UniformRows(bound) ==
    LET pool == {c \in InitCoordinatePool : -bound <= c /\ c < bound}
    IN  { [i \in Coords |-> IF i = 1 THEN a ELSE b] : a \in pool, b \in pool }

InitEntityTypePool ==
    { <<"Boxology", "DesignPattern", "Component">>,
      <<"DesignPattern", "Unknown", "Boxology">>,
      <<"Component", "Boxology", "Unknown">>,
      <<>> }

InitRelationTypePool ==
    { (0 :> RELATION_WEIGHT_KEYS[1]), (0 :> RELATION_WEIGHT_KEYS[5]), <<>> }

InitializerInit ==
    /\ \E n \in 1..MaxInitEntities :
          /\ init_entity_draws \in [0..(n - 1) -> UniformRows(XavierBound(n))]
          /\ \E types \in InitEntityTypePool :
                init_entity_types =
                    [idx \in {k \in 0..(n - 1) : k < Len(types)} |-> types[idx + 1]]
    /\ init_relation_draws \in [0..0 -> UniformRows(XavierBound(1))]
    /\ init_relation_types \in InitRelationTypePool
    /\ init_entity_embeddings = <<>>
    /\ init_relation_embeddings = <<>>
    /\ init_pc = "called"

InitializerIdle ==
    /\ init_entity_types = <<>>
    /\ init_relation_types = <<>>
    /\ init_entity_draws = <<>>
    /\ init_relation_draws = <<>>
    /\ init_entity_embeddings = <<>>
    /\ init_relation_embeddings = <<>>
    /\ init_pc = "idle"

\* initialize_embeddings_enhanced(...)
InitializeEmbeddingsEnhanced ==
    /\ init_pc = "called"
    /\ init_entity_embeddings' =
           NormalizeRows(ScaleEntityRows(init_entity_draws, init_entity_types))
    /\ init_relation_embeddings' =
           ScaleRelationRows(init_relation_draws, init_relation_types)
    /\ init_pc' = "returned"
    /\ UNCHANGED <<init_entity_types, init_relation_types, init_entity_draws,
                   init_relation_draws>>
    /\ UNCHANGED <<loadVars, nsVars, trainVars, persistVars, rankVars, ctxVars, engVars,
                   stepVars, webVars>>

NextInitializer == InitializeEmbeddingsEnhanced

(***************************************************************************)
(* KGRAG.py: the KGRAG class - construction with the availability probe,   *)
(* load_json_data, describe_node, generate_answer                          *)
(***************************************************************************)
\* the three texts generate_answer returns when it has no completion
LLM_NOT_AVAILABLE ==
    "LLM not available. This node is part of the knowledge graph representing a component in the boxology design pattern."
EMPTY_LLM_RESPONSE == "(Empty LLM response)"
LLM_REQUEST_FAILED ==
    "(LLM request failed - please install Ollama: https://ollama.com/download/windows)"
\* a completion a text generator sends
GeneratedText == "generated text"

\* what a probe request can end in: a response with status 200, 503 or
\* another status, or an exception (connection error, timeout)
OllamaProbeOutcomes == {"200", "non-success", "exception"}
HfProbeOutcomes == {"200", "503", "non-success", "exception"}

\* what a generation request can end in
OllamaOutcomes == {"connection error", "timeout", "non-success", "empty", "answer"}
HfOutcomes == {"connection error", "timeout", "non-success", "not a list", "empty",
               "answer"}

\* _check_llm_availability: Ollama first, then HuggingFace when a token is set
check_llm_availability(ollama, hf_api_token, hf) ==
    IF ollama = "200" THEN TRUE
    ELSE IF hf_api_token /\ hf \in {"200", "503"} THEN TRUE
    ELSE FALSE

\* the requests _check_llm_availability sends
ProbeRequests(ollama, hf_api_token) ==
    IF ollama = "200" THEN 1 ELSE IF hf_api_token THEN 2 ELSE 1

\* generate_answer from the prompt on, lines 478-529: the Ollama request,
\* then the HuggingFace request; the text returned and the requests sent
request_answer(self, ollama, hf) ==
    IF ollama = "answer" THEN [text |-> GeneratedText, requests |-> 1]
    ELSE IF hf = "answer" THEN [text |-> GeneratedText, requests |-> 2]
    ELSE IF hf = "empty" THEN [text |-> EMPTY_LLM_RESPONSE, requests |-> 2]
    ELSE [text |-> LLM_REQUEST_FAILED, requests |-> 2]

\* a generate_answer that sends its requests whatever the cached flag says
generate_answer_unguarded(self, ollama, hf) == request_answer(self, ollama, hf)

\* generate_answer(query, contexts, summary)
generate_answer(self, ollama, hf) ==
    IF ~self.llm_available THEN [text |-> LLM_NOT_AVAILABLE, requests |-> 0]
    ELSE request_answer(self, ollama, hf)

\* the nodes of a list of input or output items of a pattern
ItemNodes(items, type, pattern) ==
    [i \in 1..Len(items) |->
        [id |-> items[i].id, label |-> items[i].label, name |-> items[i].name,
         type |-> type, pattern |-> pattern.label]]

\* lines 274-304: the nodes of one pattern: inputs, outputs, then the process
PatternNodes(pattern) ==
    ItemNodes(pattern.input, "input", pattern)
    \o ItemNodes(pattern.output, "output", pattern)
    \o (IF pattern.process # <<>>
        THEN ItemNodes(<<pattern.process>>, "process", pattern) ELSE <<>>)

RECURSIVE NodesOfPatterns(_)
NodesOfPatterns(patterns) ==
    IF patterns = <<>> THEN <<>>
    ELSE PatternNodes(Head(patterns)) \o NodesOfPatterns(Tail(patterns))

RECURSIVE NodesOfBoxologies(_)
NodesOfBoxologies(boxologies) ==
    IF boxologies = <<>> THEN <<>>
    ELSE NodesOfPatterns(Head(boxologies).DesignPattern)
             \o NodesOfBoxologies(Tail(boxologies))

\* extract_json_nodes(boxology_data)
extract_json_nodes(boxology_data) ==
    NodesOfBoxologies(IF "boxologies" \in DOMAIN boxology_data
                      THEN boxology_data.boxologies ELSE <<>>)

\* a reload that also drops the fact list
load_json_data_and_clear(self, boxology_data) ==
    [self EXCEPT !.current_kg_data = boxology_data,
                 !.current_json_nodes = extract_json_nodes(boxology_data),
                 !.triples = <<>>]

\* KGRAG.load_json_data(boxology_data): the instance after the call
load_json_data(self, boxology_data) ==
    [self EXCEPT !.current_kg_data = boxology_data,
                 !.current_json_nodes = extract_json_nodes(boxology_data)]

\* find_similar_entities(query, entity_embeddings, entity_labels, top_k)
find_similar_entities(query, embeddings, labels, k) ==
    Take(SortDescending(FreshList(<<>>) \o ScoreLoop(Lower(query), labels, 0)), k)

\* build_entity_context(entity_idx, triples, entity_labels, relation_labels)
build_entity_context(entity_idx, facts, labels, relation_labels) ==
    LET lists == ContextLoop(entity_idx, facts, labels, relation_labels, 1, <<>>, <<>>)
    IN  ContextText(EntityLabelOf(labels, entity_idx), lists.outgoing, lists.incoming)

\* lines 419-434: the nodes the query matches: those whose id, label or name
\* holds the query, else those whose label holds a word of the query
MatchingJsonNodes(self, query_lower) ==
    LET direct ==
            SelectSeq(self.current_json_nodes,
                LAMBDA node : \/ Contains(Lower(node.id), query_lower)
                              \/ Contains(Lower(node.label), query_lower)
                              \/ Contains(Lower(node.name), query_lower))
        by_word ==
            SelectSeq(self.current_json_nodes,
                LAMBDA node : \E word \in Words(query_lower) :
                                  Contains(Lower(node.label), word))
    IN  IF direct # <<>> THEN direct ELSE by_word

\* KGRAG.describe_node(query): what find_similar_entities returned, the
\* contexts built, the value returned (the parts of the formatted text of
\* lines 463-467, or the "No information found" text of line 471), the text
\* of generate_answer and the requests it sent
describe_node(self, query, ollama, hf) ==
    LET matching_json_nodes == MatchingJsonNodes(self, Lower(query))
    IN  IF matching_json_nodes # <<>>
        THEN LET best_node == matching_json_nodes[1]
                 search_text == best_node.label \o <<" ">> \o best_node.name
                 similar == find_similar_entities(search_text, self.entity_embeddings,
                                                  self.entity_idx_to_label,
                                                  DESCRIBE_TOP_K)
                 contexts == [i \in 1..Len(similar) |->
                                 build_entity_context(similar[i][1], self.triples,
                                                      self.entity_idx_to_label,
                                                      self.relation_idx_to_label)]
                 llm_answer == generate_answer(self, ollama, hf)
             IN  [similar |-> Returned(similar),
                  contexts |-> contexts,
                  result |-> [kind |-> "description", label |-> best_node.label,
                              type |-> best_node.name, pattern |-> best_node.pattern,
                              description |-> llm_answer.text],
                  generated |-> TRUE,
                  text |-> llm_answer.text,
                  requests |-> llm_answer.requests]
        ELSE [similar |-> NotCalled,
              contexts |-> <<>>,
              result |-> [kind |-> "no information", query |-> query],
              generated |-> FALSE,
              text |-> "",
              requests |-> 0]

\* Inputs: the artifacts the instance loads - two labelled entities, one
\* relation, one fact
EngineSnapshot ==
    [entity_embeddings |-> TrainedMatrix(2),
     relation_embeddings |-> TrainedMatrix(1),
     entity_idx_to_uri |-> (0 :> <<"u","a">>) @@ (1 :> <<"u","c">>),
     entity_uri_to_idx |-> (<<"u","a">> :> 0) @@ (<<"u","c">> :> 1),
     entity_idx_to_label |-> (0 :> <<"a","b">>) @@ (1 :> <<"c">>),
     relation_idx_to_uri |-> (0 :> HAS_INPUT),
     relation_idx_to_label |-> (0 :> <<"h","a","s","I","n","p","u","t">>),
     triples |-> << <<0, 0, 1>> >>]

\* graph descriptions: a pattern with an input whose label is an entity's
\* label and a process that shares no word with any entity label; a pattern
\* with one output; a description without boxologies
NodeAb == [id |-> <<"n","1">>, label |-> <<"A","b">>, name |-> <<"x">>]
NodeZ == [id |-> <<"n","2">>, label |-> <<"z">>, name |-> <<"y">>]
NodeC == [id |-> <<"n","3">>, label |-> <<"w">>, name |-> <<"c">>]

DescriptionPool ==
    { [boxologies |-> << [DesignPattern |->
                            << [label |-> <<"p">>, input |-> <<NodeAb>>,
                                output |-> <<>>, process |-> NodeZ] >>] >>],
      [boxologies |-> << [DesignPattern |->
                            << [label |-> <<"q">>, input |-> <<>>,
                                output |-> <<NodeC>>, process |-> <<>>] >>] >>],
      [version |-> <<"1">>] }

EngineQueryPool == { <<"a","b">>, <<"Z">>, <<"w">>, <<"k">> }

\* a call record: the method, its arguments, what came back from outside,
\* and what describe_node or generate_answer computed
CallRecord(op, query, data, replaced, ollama, hf, outcome) ==
    [op |-> op, query |-> query, data |-> data, replaced |-> replaced,
     ollama |-> ollama, hf |-> hf, outcome |-> outcome]

NoOutcome ==
    [similar |-> NotCalled, contexts |-> <<>>, result |-> [kind |-> "none"],
     generated |-> FALSE, text |-> "", requests |-> 0]

\* whether a generate_answer call obtained no completion: the flag is false,
\* or neither request brought an answer
Degraded(self, ollama, hf) ==
    \/ ~self.llm_available
    \/ ollama # "answer" /\ hf # "answer"

EngineStart ==
    /\ rag = None
    /\ eng_pc = "unconstructed"
    /\ probes = 0
    /\ llm_requests = 0
    /\ eng_calls = 0
    /\ last_call = CallRecord("none", <<>>, None, None, "", "", NoOutcome)
    /\ fallback_texts = {}

EngineIdle ==
    /\ rag = None
    /\ eng_pc = "idle"
    /\ probes = 0
    /\ llm_requests = 0
    /\ eng_calls = 0
    /\ last_call = None
    /\ fallback_texts = {}

\* KGRAG(): lines 310-335
Construct ==
    /\ eng_pc = "unconstructed"
    /\ \E ollama \in OllamaProbeOutcomes, hf_api_token \in BOOLEAN,
          hf \in HfProbeOutcomes :
          /\ rag' = [entity_embeddings |-> EngineSnapshot.entity_embeddings,
                     relation_embeddings |-> EngineSnapshot.relation_embeddings,
                     entity_idx_to_uri |-> EngineSnapshot.entity_idx_to_uri,
                     entity_uri_to_idx |-> EngineSnapshot.entity_uri_to_idx,
                     entity_idx_to_label |-> EngineSnapshot.entity_idx_to_label,
                     relation_idx_to_uri |-> EngineSnapshot.relation_idx_to_uri,
                     relation_idx_to_label |-> EngineSnapshot.relation_idx_to_label,
                     triples |-> EngineSnapshot.triples,
                     current_json_nodes |-> <<>>,
                     current_kg_data |-> None,
                     llm_available |-> check_llm_availability(ollama, hf_api_token, hf)]
          /\ last_call' = CallRecord("__init__", <<>>, None, None, ollama,
                                     IF ollama # "200" /\ hf_api_token THEN hf ELSE "",
                                     NoOutcome)
    /\ probes' = probes + 1
    /\ eng_pc' = "ready"
    /\ UNCHANGED <<llm_requests, eng_calls, fallback_texts>>
    /\ UNCHANGED <<loadVars, nsVars, trainVars, persistVars, rankVars, ctxVars, initVars,
                   stepVars, webVars>>

\* rag.load_json_data(boxology_data)
LoadJsonData ==
    /\ eng_pc = "ready"
    /\ eng_calls < MaxEngineCalls
    /\ \E boxology_data \in DescriptionPool :
          /\ rag' = load_json_data(rag, boxology_data)
          /\ last_call' = CallRecord("load_json_data", <<>>, boxology_data,
                                     rag.current_kg_data, "", "", NoOutcome)
    /\ eng_calls' = eng_calls + 1
    /\ UNCHANGED <<eng_pc, probes, llm_requests, fallback_texts>>
    /\ UNCHANGED <<loadVars, nsVars, trainVars, persistVars, rankVars, ctxVars, initVars,
                   stepVars, webVars>>

\* rag.describe_node(query)
DescribeNode ==
    /\ eng_pc = "ready"
    /\ eng_calls < MaxEngineCalls
    /\ \E query \in EngineQueryPool, ollama \in OllamaOutcomes, hf \in HfOutcomes :
          LET outcome == describe_node(rag, query, ollama, hf)
              sent == outcome.requests
          IN  /\ last_call' = CallRecord("describe_node", query, None, None,
                                         IF sent >= 1 THEN ollama ELSE "",
                                         IF sent >= 2 THEN hf ELSE "", outcome)
              /\ llm_requests' = llm_requests + sent
              /\ fallback_texts' =
                     IF outcome.generated /\ Degraded(rag, ollama, hf)
                     THEN fallback_texts \cup {outcome.text} ELSE fallback_texts
    /\ eng_calls' = eng_calls + 1
    /\ UNCHANGED <<rag, eng_pc, probes>>
    /\ UNCHANGED <<loadVars, nsVars, trainVars, persistVars, rankVars, ctxVars, initVars,
                   stepVars, webVars>>

\* rag.generate_answer(query, contexts, summary): the arguments go into the
\* prompt only
GenerateAnswer ==
    /\ eng_pc = "ready"
    /\ eng_calls < MaxEngineCalls
    /\ \E ollama \in OllamaOutcomes, hf \in HfOutcomes :
          LET answer == generate_answer(rag, ollama, hf)
              sent == answer.requests
          IN  /\ last_call' = CallRecord("generate_answer", <<>>, None, None,
                                         IF sent >= 1 THEN ollama ELSE "",
                                         IF sent >= 2 THEN hf ELSE "",
                                         [NoOutcome EXCEPT !.generated = TRUE,
                                                           !.text = answer.text,
                                                           !.requests = sent])
              /\ llm_requests' = llm_requests + sent
              /\ fallback_texts' =
                     IF Degraded(rag, ollama, hf)
                     THEN fallback_texts \cup {answer.text} ELSE fallback_texts
    /\ eng_calls' = eng_calls + 1
    /\ UNCHANGED <<rag, eng_pc, probes>>
    /\ UNCHANGED <<loadVars, nsVars, trainVars, persistVars, rankVars, ctxVars, initVars,
                   stepVars, webVars>>

NextEngine == Construct \/ LoadJsonData \/ DescribeNode \/ GenerateAnswer

(***************************************************************************)
(* One (positive, negative) pair of the training loop on drawn inputs      *)
(* (JSONEmbed.py lines 419-479): the matrices, the positive fact and the   *)
(* negative fact the sampler returned are drawn, then the pair is          *)
(* processed once                                                          *)
(***************************************************************************)
StepEntities == 0..(MaxStepEntities - 1)

\* entity matrices with rows of norm 1: one whose rows point apart, one whose
\* first two rows coincide (a positive fact between them scores low)
StepEntityInits ==
    { [e \in StepEntities |-> IF e = 0 THEN SlantVector
                              ELSE IF e = 1 THEN UnitVector(1, -1)
                              ELSE UnitVector(Dim, 1)],
      [e \in StepEntities |-> IF e = 2 THEN UnitVector(1, -1) ELSE UnitVector(1, 1)] }

GradStepInit ==
    /\ gs_E \in StepEntityInits
    /\ gs_R \in TrainRelationInits
    /\ gs_pos \in StepEntities \X TrainRelations \X StepEntities
    /\ \E head \in BOOLEAN, e \in StepEntities : gs_neg = Corrupt(gs_pos, head, e)
    /\ gs_out = None
    /\ gs_pc = "ready"

GradStepIdle ==
    /\ gs_E = <<>>
    /\ gs_R = <<>>
    /\ gs_pos = None
    /\ gs_neg = None
    /\ gs_out = None
    /\ gs_pc = "idle"

\* lines 419-479 for the drawn pair, at the learning rate of the first epoch
GradStep ==
    /\ gs_pc = "ready"
    /\ gs_out' = PairStep(gs_E, gs_R, gs_pos, gs_neg,
                          compute_score(gs_E[gs_pos[1]], gs_R[gs_pos[2]], gs_E[gs_pos[3]]),
                          RelationImportance(TrainRelationToIdx, TrainRelationTypes),
                          TrainMargin, CurrentLr(learning_rate, 0))
    /\ gs_pc' = "done"
    /\ UNCHANGED <<gs_E, gs_R, gs_pos, gs_neg>>
    /\ UNCHANGED <<loadVars, nsVars, trainVars, persistVars, rankVars, ctxVars, initVars,
                   engVars, webVars>>

NextGradStep == GradStep

(***************************************************************************)
(* The backend (main.py): the stored graph description, the KGRAG instance *)
(* created on demand, and the request handlers. A handler is an async      *)
(* function without an await, so it runs from its first statement to its   *)
(* last without another request in between.                                *)
(***************************************************************************)
\* a JSON string standing where extract_json_nodes expects an object
JsonString(s) == [str |-> s]
IsObject(v) == "str" \notin DOMAIN v

\* extract_json_nodes raises (KGRAG.py lines 296-300: proc.get on a value
\* that is not an object) when the process of a pattern is a non-empty string
ExtractionRaises(boxology_data) ==
    /\ "boxologies" \in DOMAIN boxology_data
    /\ \E i \in DOMAIN boxology_data.boxologies :
          LET patterns == boxology_data.boxologies[i].DesignPattern
          IN  \E j \in DOMAIN patterns :
                  patterns[j].process # <<>> /\ ~IsObject(patterns[j].process)

\* rag.load_json_data(boxology_data) as a call: line 382 stores the
\* description, then line 383 extracts the nodes, which may raise
load_json_data_call(self, boxology_data) ==
    IF ExtractionRaises(boxology_data)
    THEN [self |-> [self EXCEPT !.current_kg_data = boxology_data], raised |-> TRUE]
    ELSE [self |-> load_json_data(self, boxology_data), raised |-> FALSE]

\* KGRAG() for the artifacts of EngineSnapshot (KGRAG.py lines 310-335)
NewInstance(available) ==
    [entity_embeddings |-> EngineSnapshot.entity_embeddings,
     relation_embeddings |-> EngineSnapshot.relation_embeddings,
     entity_idx_to_uri |-> EngineSnapshot.entity_idx_to_uri,
     entity_uri_to_idx |-> EngineSnapshot.entity_uri_to_idx,
     entity_idx_to_label |-> EngineSnapshot.entity_idx_to_label,
     relation_idx_to_uri |-> EngineSnapshot.relation_idx_to_uri,
     relation_idx_to_label |-> EngineSnapshot.relation_idx_to_label,
     triples |-> EngineSnapshot.triples,
     current_json_nodes |-> <<>>,
     current_kg_data |-> None,
     llm_available |-> available]

\* how KGRAG() can end: an exception (an artifact is missing), or an instance
\* whose probe found no text generator, or one whose probe found one
ConstructionOutcomes == {"raises", "no llm", "llm"}

\* _get_rag_instance(), lines 39-51: the instance of earlier requests, else a
\* new one, else None when KGRAG() raises
get_rag_instance(instance, built) ==
    IF instance # None THEN instance
    ELSE IF built = "raises" THEN None
    ELSE NewInstance(built = "llm")

\* graph descriptions sent to POST /api/kg: two well-formed ones, one whose
\* pattern has a string as process, one without boxologies
FrontDescriptionA ==
    [boxologies |-> << [id |-> <<"b","1">>,
                        DesignPattern |->
                            << [label |-> <<"p">>, input |-> <<NodeAb>>,
                                output |-> <<>>, process |-> NodeZ] >>] >>]
FrontDescriptionB ==
    [boxologies |-> << [id |-> <<"b","2">>,
                        DesignPattern |->
                            << [label |-> <<"q">>, input |-> <<>>,
                                output |-> <<NodeC>>, process |-> <<>>] >>] >>]
FrontDescriptionMalformed ==
    [boxologies |-> << [id |-> <<"b","3">>,
                        DesignPattern |->
                            << [label |-> <<"r">>, input |-> <<>>,
                                output |-> <<>>,
                                process |-> JsonString(<<"t">>)] >>] >>]
FrontDescriptions ==
    {FrontDescriptionA, FrontDescriptionB, FrontDescriptionMalformed,
     [version |-> <<"1">>]}

\* how create_kg(source) can end. kg_creation.py reads source["boxologies"]
\* and the "id" of every boxology (lines 44-45), so it raises without them;
\* beyond that the outcome depends on the graph generator and on the SPARQL
\* endpoint, which are outside this repository
CreationOutcomes(source) ==
    IF /\ "boxologies" \in DOMAIN source
       /\ \A i \in DOMAIN source.boxologies : "id" \in DOMAIN source.boxologies[i]
    THEN {"created", "raises"}
    ELSE {"raises"}

\* api_create_kg that stores the description before it creates the graph
api_create_kg_store_first(stored, instance, source, creation, built) ==
    [current_kg_data |-> source, rag_instance |-> instance,
     status |-> IF creation = "created" THEN "ok" ELSE "500"]

\* api_create_kg(source), lines 63-95: the two globals after the request and
\* the status of the response
api_create_kg(stored, instance, source, creation, built) ==
    IF creation # "created"
    THEN [current_kg_data |-> stored, rag_instance |-> instance, status |-> "500"]
    ELSE LET the_rag == get_rag_instance(instance, built)
         IN  [current_kg_data |-> source,
              rag_instance |-> IF the_rag = None THEN None
                               ELSE load_json_data_call(the_rag, source).self,
              status |-> "ok"]

\* the queries of node-description requests (node_label or node_id): the
\* label of a node of the first description, the label of a node of the
\* second; None when the request carries neither
FrontQueryPool == {<<"a","b">>, <<"w">>, None}

\* what a request leaves in last_request
RequestRecord(op, status, argument, described, described_on, result) ==
    [op |-> op, status |-> status, argument |-> argument, described |-> described,
     engine |-> described_on, result |-> result]

\* get_node_description(node_data), lines 104-148: the instance after the
\* request, the status of the response, whether describe_node was called,
\* and the instance it was called on
get_node_description(stored, instance, query, built, ollama, hf) ==
    IF stored = None
    THEN [rag_instance |-> instance, status |-> "404", described |-> FALSE,
          engine |-> None, result |-> None]
    ELSE LET the_rag == get_rag_instance(instance, built)
         IN  IF the_rag = None
             THEN [rag_instance |-> None, status |-> "error", described |-> FALSE,
                   engine |-> None, result |-> None]
             ELSE LET stale == \/ the_rag.current_json_nodes = <<>>
                               \/ the_rag.current_kg_data # stored
                      reload == IF stale THEN load_json_data_call(the_rag, stored)
                                ELSE [self |-> the_rag, raised |-> FALSE]
                  IN  IF reload.raised
                      THEN [rag_instance |-> reload.self, status |-> "error",
                            described |-> FALSE, engine |-> None, result |-> None]
                      ELSE IF query = None
                      THEN [rag_instance |-> reload.self, status |-> "error",
                            described |-> TRUE, engine |-> reload.self,
                            result |-> None]
                      ELSE [rag_instance |-> reload.self, status |-> "ok",
                            described |-> TRUE, engine |-> reload.self,
                            result |-> describe_node(reload.self, query, ollama,
                                                     hf).result]

FrontStart ==
    /\ current_kg_data = None
    /\ rag_instance = None
    /\ web_requests = 0
    /\ last_request = RequestRecord("none", "", None, FALSE, None, None)
    /\ last_created = None

FrontIdle ==
    /\ current_kg_data = None
    /\ rag_instance = None
    /\ web_requests = 0
    /\ last_request = None
    /\ last_created = None

\* POST /api/kg. last_created: the source of the latest request whose
\* create_kg call returned
ApiCreateKg ==
    /\ last_request # None
    /\ web_requests < MaxWebRequests
    /\ \E source \in FrontDescriptions, built \in ConstructionOutcomes :
          \E creation \in CreationOutcomes(source) :
              LET after == api_create_kg(current_kg_data, rag_instance, source,
                                         creation, built)
              IN  /\ current_kg_data' = after.current_kg_data
                  /\ rag_instance' = after.rag_instance
                  /\ last_request' = RequestRecord("create", after.status, source,
                                                   FALSE, None, None)
                  /\ last_created' = IF creation = "created" THEN source
                                     ELSE last_created
    /\ web_requests' = web_requests + 1
    /\ UNCHANGED <<loadVars, nsVars, trainVars, persistVars, rankVars, ctxVars, initVars,
                   engVars, stepVars>>

\* GET /api/kg/current, lines 97-102
GetCurrentKg ==
    /\ last_request # None
    /\ web_requests < MaxWebRequests
    /\ last_request' = IF current_kg_data = None
                       THEN RequestRecord("current", "404", None, FALSE, None, None)
                       ELSE RequestRecord("current", "ok", None, FALSE, None,
                                          current_kg_data)
    /\ web_requests' = web_requests + 1
    /\ UNCHANGED <<current_kg_data, rag_instance, last_created>>
    /\ UNCHANGED <<loadVars, nsVars, trainVars, persistVars, rankVars, ctxVars, initVars,
                   engVars, stepVars>>

\* POST /api/kg/node-description
GetNodeDescription ==
    /\ last_request # None
    /\ web_requests < MaxWebRequests
    /\ \E query \in FrontQueryPool, built \in ConstructionOutcomes,
          ollama \in OllamaOutcomes, hf \in HfOutcomes :
          LET after == get_node_description(current_kg_data, rag_instance, query,
                                            built, ollama, hf)
          IN  /\ rag_instance' = after.rag_instance
              /\ last_request' = RequestRecord("node-description", after.status, query,
                                               after.described, after.engine,
                                               after.result)
    /\ web_requests' = web_requests + 1
    /\ UNCHANGED <<current_kg_data, last_created>>
    /\ UNCHANGED <<loadVars, nsVars, trainVars, persistVars, rankVars, ctxVars, initVars,
                   engVars, stepVars>>

\* GET /api/health, lines 155-164: creates the instance when there is none
Health ==
    /\ last_request # None
    /\ web_requests < MaxWebRequests
    /\ \E built \in ConstructionOutcomes :
          rag_instance' = get_rag_instance(rag_instance, built)
    /\ last_request' = RequestRecord("health", "ok", None, FALSE, None, None)
    /\ web_requests' = web_requests + 1
    /\ UNCHANGED <<current_kg_data, last_created>>
    /\ UNCHANGED <<loadVars, nsVars, trainVars, persistVars, rankVars, ctxVars, initVars,
                   engVars, stepVars>>

NextFront == ApiCreateKg \/ GetCurrentKg \/ GetNodeDescription \/ Health

(***************************************************************************)
(* Specifications: each component run on its own                           *)
(***************************************************************************)
InitLoad ==
    /\ LoadInit
    /\ NsIdle /\ TrainIdle /\ PersistIdle /\ RankIdle /\ ContextIdle
    /\ InitializerIdle /\ EngineIdle
    /\ GradStepIdle /\ FrontIdle
SpecLoad == InitLoad /\ [][NextLoad]_vars

InitNs ==
    /\ NsInit
    /\ LoadIdle /\ TrainIdle /\ PersistIdle /\ RankIdle /\ ContextIdle
    /\ InitializerIdle /\ EngineIdle
    /\ GradStepIdle /\ FrontIdle
SpecNs == InitNs /\ [][NextNs]_vars

InitTrain ==
    /\ TrainInit
    /\ LoadIdle /\ NsIdle /\ PersistIdle /\ RankIdle /\ ContextIdle
    /\ InitializerIdle /\ EngineIdle
    /\ GradStepIdle /\ FrontIdle
SpecTrain == InitTrain /\ [][NextTrain]_vars

\* the position of train_transe_enhanced in its loops
trainPosition == <<tr_pc, epoch, fact_i, neg_k>>

\* a statement of train_transe_enhanced runs: until the function has returned
\* there is a next statement, and running it moves the position (every action
\* of NextTrain is such a step)
TrainStatementRuns ==
    /\ tr_pc \in {"epoch", "step", "validate"}
    /\ tr_pc' \in {"epoch", "step", "validate", "returned"}
    /\ epoch' \in {epoch, epoch + 1}
    /\ fact_i' \in {1, fact_i + 1}
    /\ neg_k' \in {1, neg_k + 1}
    /\ trainPosition' # trainPosition

\* train_transe_enhanced is one sequential loop on one thread: while it has
\* not returned, its next statement is eventually run
SpecTrainFair == SpecTrain /\ WF_trainPosition(TrainStatementRuns)

InitPersist ==
    /\ PersistInit
    /\ LoadIdle /\ NsIdle /\ TrainIdle /\ RankIdle /\ ContextIdle
    /\ InitializerIdle /\ EngineIdle
    /\ GradStepIdle /\ FrontIdle
SpecPersist == InitPersist /\ [][NextPersist]_vars

InitRank ==
    /\ RankInit
    /\ LoadIdle /\ NsIdle /\ TrainIdle /\ PersistIdle /\ ContextIdle
    /\ InitializerIdle /\ EngineIdle
    /\ GradStepIdle /\ FrontIdle
SpecRank == InitRank /\ [][NextRank]_vars

InitContext ==
    /\ ContextInit
    /\ LoadIdle /\ NsIdle /\ TrainIdle /\ PersistIdle /\ RankIdle
    /\ InitializerIdle /\ EngineIdle
    /\ GradStepIdle /\ FrontIdle
SpecContext == InitContext /\ [][NextContext]_vars

InitInitializer ==
    /\ InitializerInit
    /\ LoadIdle /\ NsIdle /\ TrainIdle /\ PersistIdle /\ RankIdle /\ ContextIdle
    /\ EngineIdle
    /\ GradStepIdle /\ FrontIdle
SpecInitializer == InitInitializer /\ [][NextInitializer]_vars

InitEngine ==
    /\ EngineStart
    /\ LoadIdle /\ NsIdle /\ TrainIdle /\ PersistIdle /\ RankIdle /\ ContextIdle
    /\ InitializerIdle
    /\ GradStepIdle /\ FrontIdle
SpecEngine == InitEngine /\ [][NextEngine]_vars

InitGradStep ==
    /\ GradStepInit
    /\ LoadIdle /\ NsIdle /\ TrainIdle /\ PersistIdle /\ RankIdle /\ ContextIdle
    /\ InitializerIdle /\ EngineIdle
    /\ FrontIdle
SpecGradStep == InitGradStep /\ [][NextGradStep]_vars

InitFront ==
    /\ FrontStart
    /\ LoadIdle /\ NsIdle /\ TrainIdle /\ PersistIdle /\ RankIdle /\ ContextIdle
    /\ InitializerIdle /\ EngineIdle
    /\ GradStepIdle
SpecFront == InitFront /\ [][NextFront]_vars

(***************************************************************************)
(* Properties of the fact loader                                           *)
(***************************************************************************)
\* a record that the data model says is retained: a well-formed fact whose
\* object is a reference (not a quoted literal), whose predicate is in the
\* allow-list and is neither rdfs:label nor rdf:type
Retainable(line) ==
    /\ line.kind = "uri"
    /\ line.s # <<>> /\ line.p # <<>> /\ line.o # <<>>
    /\ line.p \in KEEP_PREDICATES
    /\ line.p # RDFS_LABEL
    /\ line.p # RDF_TYPE

RetainedRecords(ls) ==
    LET kept == SelectSeq(ls, Retainable)
    IN  [i \in 1..Len(kept) |-> <<kept[i].s, kept[i].p, kept[i].o>>]

\* C3: every fact load_kg_triples returns comes from a record whose predicate
\* is in the allow-list, is neither rdfs:label nor rdf:type, and whose object
\* is no literal; every such record is retained, in input order; the indexed
\* facts name exactly those records.
\* Violated: a record whose object is the bracketed reference <"x"> is
\* dropped by the is_literal test, which sees only the text between the
\* brackets.
C3_FactLoaderOutput ==
    load_pc = "returned" =>
        /\ triples = RetainedRecords(lines)
        /\ Len(indexed_triples) = Len(triples)
        /\ \A i \in 1..Len(indexed_triples) :
              /\ UriOfIndex(entity_to_idx, indexed_triples[i][1]) = triples[i][1]
              /\ UriOfIndex(relation_to_idx, indexed_triples[i][2]) = triples[i][2]
              /\ UriOfIndex(entity_to_idx, indexed_triples[i][3]) = triples[i][3]
              /\ triples[i][2] \in KEEP_PREDICATES \ {RDFS_LABEL, RDF_TYPE}
              /\ triples[i][3][1] # QUOTE
        /\ RDFS_LABEL \notin DOMAIN relation_to_idx
        /\ RDF_TYPE \notin DOMAIN relation_to_idx

\* the entity-index and relation-index maps of a whole run over ls
SurvivingEntities(ls) ==
    UNION {{parse_nt_line(ls[i])[1], parse_nt_line(ls[i])[3]} :
             i \in {j \in 1..Len(ls) : FilterDecision(ls[j]) = "keep"}}
SurvivingRelations(ls) ==
    {parse_nt_line(ls[i])[2] : i \in {j \in 1..Len(ls) : FilterDecision(ls[j]) = "keep"}}

\* C4: the index maps are bijections from the surviving URIs onto 0..n-1 in
\* lexicographic (code-point) order, and a run over any permutation of the
\* same lines yields the same maps
C4_IndexDeterminism ==
    load_pc = "returned" =>
        /\ DOMAIN entity_to_idx = entities
        /\ DOMAIN relation_to_idx = relations
        /\ {entity_to_idx[u] : u \in entities} = 0..(Cardinality(entities) - 1)
        /\ {relation_to_idx[u] : u \in relations} = 0..(Cardinality(relations) - 1)
        /\ \A u, v \in entities : entity_to_idx[u] < entity_to_idx[v] <=> StrLess(u, v)
        /\ \A u, v \in relations : relation_to_idx[u] < relation_to_idx[v] <=> StrLess(u, v)
        /\ \A f \in Perms(Len(lines)) :
              LET ls == [i \in 1..Len(lines) |-> lines[f[i]]]
              IN  /\ IndexMap(SurvivingEntities(ls)) = entity_to_idx
                  /\ IndexMap(SurvivingRelations(ls)) = relation_to_idx

\* C4 witness: three surviving entities whose first-seen order is not their
\* index order, and two relations
C4_Witness ==
    /\ load_pc = "returned"
    /\ Cardinality(entities) = 3
    /\ Cardinality(relations) = 2
    /\ entity_to_idx[triples[1][1]] > entity_to_idx[triples[2][1]]

(***************************************************************************)
(* Properties of the negative sampler                                      *)
(***************************************************************************)
\* C5: the fact generate_negative_sample returns keeps the relation and
\* differs from the positive fact in exactly one position, head or tail
C5_DiffersInExactlyOnePosition ==
    ns_pc = "returned" =>
        /\ ns_result[2] = ns_triple[2]
        /\ (ns_result[1] # ns_triple[1]) # (ns_result[3] # ns_triple[3])

(***************************************************************************)
(* Properties of the trainer                                               *)
(***************************************************************************)
\* epoch k (1-based) strictly improved on every validation score before it
Improved(k) == \A j \in 1..(k - 1) : val_history[k] < val_history[j]

\* the live matrices as they were at the end of epoch k (0: before training)
LiveAtEndOf(k) == live_history[k + 1]

\* C1: when the validation score strictly improves at epoch k and then fails
\* to improve for patience consecutive epochs, training has stopped at the
\* end of epoch k + patience (no further epoch is run) and returns the live
\* matrices as they were at the end of epoch k
C1_EarlyStopping ==
    tr_pc # "idle" =>
        \A k \in 1..Len(val_history) :
            ( /\ Improved(k)
              /\ k + patience <= Len(val_history)
              /\ \A j \in (k + 1)..(k + patience) : ~Improved(j) )
            => /\ Len(val_history) = k + patience
               /\ epoch = k + patience
               /\ tr_pc = "returned"
               /\ tr_result = LiveAtEndOf(k)

\* C1 witness: an early stop before the epoch cap that returns matrices other
\* than the live ones of the last epoch run
C1_Witness ==
    /\ tr_pc = "returned"
    /\ Len(val_history) >= 2
    /\ Len(val_history) < num_epochs
    /\ \E k \in 1..Len(val_history) :
          /\ Improved(k)
          /\ k + patience = Len(val_history)
          /\ \A j \in (k + 1)..(k + patience) : ~Improved(j)
          /\ tr_result = LiveAtEndOf(k)
          /\ tr_result # LiveAtEndOf(Len(val_history))

\* the earliest epoch whose validation score is the minimum of all scores
EarliestBestEpoch ==
    MinOf({k \in 1..Len(val_history) :
              \A j \in 1..Len(val_history) : val_history[k] <= val_history[j]})

ExpectedBest ==
    IF val_history = <<>> THEN LiveAtEndOf(0) ELSE LiveAtEndOf(EarliestBestEpoch)

\* C2: at every moment the best-known snapshot is the pair of matrices as
\* they were at the end of the earliest epoch with the minimum validation
\* score (the initial matrices before any epoch ended), whatever gradient
\* steps ran since, and that snapshot is what training returns
C2_ReturnsBestSnapshot ==
    tr_pc # "idle" =>
        /\ BestEmbeddings = ExpectedBest
        /\ tr_pc = "returned" => tr_result = ExpectedBest

\* C2 witness: training ended at the epoch cap and returns a snapshot taken at
\* an epoch after the first, which the live matrices have since left
C2_Witness ==
    /\ tr_pc = "returned"
    /\ Len(val_history) = num_epochs
    /\ num_epochs > 0
    /\ EarliestBestEpoch > 1
    /\ tr_result # LiveEmbeddings

\* C6: after every gradient step every entity vector has norm at most 1 + EPS
C6_UnitBall ==
    tr_pc # "idle" =>
        \A e \in DOMAIN heap[entity_embeddings] :
            SumSq(heap[entity_embeddings][e]) <= (SCALE + EPS) * (SCALE + EPS)

\* C6 witness: a gradient step that measured a norm above 1 + EPS on an entity
\* holding two roles of the step
C6_Witness ==
    /\ last_step # None
    /\ last_step.updated
    /\ \E i \in 1..4 : last_step.norms[i] > SCALE + EPS
    /\ last_step.pos[1] = last_step.neg[1]

(***************************************************************************)
(* Properties of persistence and load-back                                 *)
(***************************************************************************)
\* the maps main() holds, index to URI and index to label
WrittenIdxToUri(map) == [i \in 0..(Cardinality(DOMAIN map) - 1) |-> UriOfIndex(map, i)]
WrittenIdxToLabel(map) ==
    [i \in 0..(Cardinality(DOMAIN map) - 1) |->
        extract_label_from_uri(UriOfIndex(map, i))]

\* C7: on the text tables main() wrote, load_entity_map, load_relation_map
\* and load_triples complete without error and return one entry per written
\* entity and relation (same index, URI, label) and the written facts in order
C7_TextTablesRoundTrip ==
    /\ ret_load_entity_map.status # "not called" =>
          /\ ret_load_entity_map.status = "returned"
          /\ ret_load_entity_map.value.idx_to_uri = WrittenIdxToUri(main_entity_to_idx)
          /\ ret_load_entity_map.value.idx_to_label = WrittenIdxToLabel(main_entity_to_idx)
    /\ ret_load_relation_map.status # "not called" =>
          /\ ret_load_relation_map.status = "returned"
          /\ ret_load_relation_map.value.idx_to_uri
                = WrittenIdxToUri(main_relation_to_idx)
          /\ ret_load_relation_map.value.idx_to_label
                = WrittenIdxToLabel(main_relation_to_idx)
    /\ ret_load_triples.status # "not called" =>
          /\ ret_load_triples.status = "returned"
          /\ ret_load_triples.value = main_indexed_triples

\* C8: each embedding artifact holds exactly count x Dim words, and the
\* engine, reshaping the flat array to (count, Dim), obtains the matrix that
\* was written
C8_EmbeddingRoundTrip ==
    /\ persist_pc = "written" =>
          /\ Len(files.entity_embeddings)
                = Cardinality(DOMAIN main_entity_to_idx) * Dim
          /\ Len(files.relation_embeddings)
                = Cardinality(DOMAIN main_relation_to_idx) * Dim
    /\ engine.status # "not called" =>
          /\ engine.status = "returned"
          /\ engine.value.entity_embeddings = main_entity_embeddings
          /\ engine.value.relation_embeddings = main_relation_embeddings

(***************************************************************************)
(* Properties of the ranking                                               *)
(***************************************************************************)
\* the score the scoring rule gives a label for a query, None for no score
RuleScore(query, label) ==
    LET q == Lower(query)
        l == Lower(label)
        shared == Words(q) \cap Words(l)
        most == MaxOf({Cardinality(Words(q)), Cardinality(Words(l))})
    IN  CASE q = l -> <<10, 10>>
          [] q # l /\ Contains(l, q) -> <<8, 10>>
          [] q # l /\ ~Contains(l, q) /\ Contains(q, l) -> <<6, 10>>
          [] q # l /\ ~Contains(l, q) /\ ~Contains(q, l) /\ shared # {} ->
                 <<4 * Cardinality(shared), 10 * most>>
          [] OTHER -> None

\* C9: every scored entity has the score of the rule (1.0 equal, 0.8 query in
\* label, 0.6 label in query, 0.4 * shared / max words, in that priority), an
\* entity with no score is in no result, and the result is taken from the
\* scored entities
C9_CandidateScoring ==
    rank_pc = "returned" =>
        /\ \A i \in 1..Len(scores) :
              /\ scores[i][1] \in DOMAIN entity_labels
              /\ scores[i][2] = RuleScore(query_text, entity_labels[scores[i][1]])
        /\ \A idx \in DOMAIN entity_labels :
              Cardinality({i \in 1..Len(scores) : scores[i][1] = idx})
                 = IF RuleScore(query_text, entity_labels[idx]) = None THEN 0 ELSE 1
        /\ \A i \in 1..Len(rank_result) : \E j \in 1..Len(scores) : rank_result[i] = scores[j]

\* C9 witness: a ranking with a partial word overlap (0.4 * 1 / 2), a label
\* inside the query (0.6) and an entity left out
C9_Witness ==
    /\ rank_pc = "returned"
    /\ \E i \in 1..Len(scores) : scores[i][2] = <<4, 20>>
    /\ \E i \in 1..Len(scores) : scores[i][2] = <<6, 10>>
    /\ Len(scores) < Cardinality(DOMAIN entity_labels)
    /\ Len(rank_result) = Len(scores)

IsExactMatch(idx) == Lower(entity_labels[idx]) = Lower(query_text)

\* C10: in the result an exact match has score 1.0 and stands before every
\* entity that is not an exact match; if an exact match exists and
\* top_k >= 1, the first element of the result is an exact match
C10_ExactMatchFirst ==
    rank_pc = "returned" =>
        /\ \A i \in 1..Len(rank_result) :
              IsExactMatch(rank_result[i][1]) =>
                 /\ rank_result[i][2] = <<10, 10>>
                 /\ \A j \in 1..Len(rank_result) :
                       ~IsExactMatch(rank_result[j][1]) => i < j
        /\ (top_k >= 1 /\ \E idx \in DOMAIN entity_labels : IsExactMatch(idx)) =>
              /\ Len(rank_result) >= 1
              /\ IsExactMatch(rank_result[1][1])

\* C10 witness: an exact match that stands after a substring match in the
\* label table and before it in the result
C10_Witness ==
    /\ rank_pc = "returned"
    /\ Len(rank_result) >= 2
    /\ IsExactMatch(rank_result[1][1])
    /\ rank_result[2][2] = <<8, 10>>
    /\ rank_result[2][1] < rank_result[1][1]

\* the entities the scoring rule gives a score
ScoredEntities ==
    {idx \in DOMAIN entity_labels : RuleScore(query_text, entity_labels[idx]) # None}

\* C11: the scored entities are ordered by score, non-increasing, entities of
\* equal score in the order of the label map, and the result is exactly the
\* first min(top_k, number of scored entities) elements of that ordering
C11_OrderingAndTruncation ==
    rank_pc = "returned" =>
        /\ Len(scores) = Cardinality(ScoredEntities)
        /\ {scores[i][1] : i \in 1..Len(scores)} = ScoredEntities
        /\ \A i, j \in 1..Len(scores) :
              i < j => /\ ~ScoreGreater(scores[j][2], scores[i][2])
                       /\ ~ScoreGreater(scores[i][2], scores[j][2])
                              => scores[i][1] < scores[j][1]
        /\ Len(rank_result) = MinOf({top_k, Len(scores)})
        /\ \A i \in 1..Len(rank_result) : rank_result[i] = scores[i]

\* C11 witness: three scored entities, the best one last in the label map and
\* the other two tied, cut to two
C11_Witness ==
    /\ rank_pc = "returned"
    /\ Len(scores) = 3
    /\ top_k = 2
    /\ rank_result[1][1] = 2
    /\ rank_result[2][1] = 0
    /\ scores[2][2] = scores[3][2]

FactsWithHead(e) == SelectSeq(ctx_triples, LAMBDA f : f[1] = e)

\* the facts of the list with the entity as tail, in list order: a fact
\* whose head is the entity too is among them
FactsWithTail(e) == SelectSeq(ctx_triples, LAMBDA f : f[3] = e)

\* the text of each fact of a list, by a rendering
RenderedFacts(facts, Rendering(_)) == [i \in 1..Len(facts) |-> Rendering(facts[i])]

\* C13: the outgoing list is the first min(5, n_out) facts with the entity as
\* head, each as relation -> tail label; the incoming list is the first
\* min(5, n_in) facts with the entity as tail, each as head label -> relation,
\* a fact whose head is the entity too included; an empty list is left out
C13_EntityContext ==
    ctx_pc = "returned" =>
        ctx_result =
            ContextText(
                EntityLabelOf(ctx_entity_labels, ctx_entity_idx),
                RenderedFacts(FactsWithHead(ctx_entity_idx),
                    LAMBDA f : OutgoingText(ctx_entity_labels, ctx_relation_labels, f)),
                RenderedFacts(FactsWithTail(ctx_entity_idx),
                    LAMBDA f : IncomingText(ctx_entity_labels, ctx_relation_labels, f)))

(***************************************************************************)
(* Properties of the embedding initializer                                 *)
(***************************************************************************)
\* C14: after the initializer every entity row has norm 1 within tolerance,
\* whatever the importance of its type, and every relation row has the norm
\* of its draw times the weight of its type: it is not normalized
C14_InitialNorms ==
    init_pc = "returned" =>
        /\ DOMAIN init_entity_embeddings = DOMAIN init_entity_draws
        /\ \A e \in DOMAIN init_entity_embeddings :
              /\ Norm(init_entity_embeddings[e]) >= SCALE - EPS
              /\ Norm(init_entity_embeddings[e]) <= SCALE + EPS
        /\ \A r \in DOMAIN init_relation_draws :
              Norm(init_relation_embeddings[r]) =
                  Norm([i \in Coords |->
                          RDiv(init_relation_draws[r][i]
                                 * RelationWeight(IF r \in DOMAIN init_relation_types
                                                  THEN init_relation_types[r]
                                                  ELSE <<"o","t","h","e","r">>), 10)])

\* C14 witness: an entity of importance 1.5 whose scaled draw is longer than
\* 1 and an entity whose draw is shorter than 1, both returned with norm 1,
\* beside a relation row whose norm is not 1
C14_Witness ==
    /\ init_pc = "returned"
    /\ \E e \in DOMAIN init_entity_draws :
          /\ e \in DOMAIN init_entity_types
          /\ init_entity_types[e] = "Boxology"
          /\ Norm(init_entity_draws[e]) * 15 > (SCALE + EPS) * 10
    /\ \E e \in DOMAIN init_entity_draws : Norm(init_entity_draws[e]) < SCALE - EPS
    /\ \E r \in DOMAIN init_relation_embeddings :
          Norm(init_relation_embeddings[r]) > SCALE + EPS

(***************************************************************************)
(* Failure behaviour of the trainer and of the fact loader                 *)
(***************************************************************************)
\* C15: a training run that starts with an empty fact set aborts: no epoch
\* of it runs to completion and the trainer never returns matrices to be
\* written
C15_EmptyFactSetFatal ==
    (tr_pc # "idle" /\ train_triples = <<>> /\ val_triples = <<>>) =>
        /\ val_history = <<>>
        /\ tr_pc # "returned"

\* C16: for every readable file, whatever its lines, load_kg_triples returns
\* normally: its call never ends in an exception
C16_BestEffortIngestion ==
    load_pc \notin {"UnboundLocalError", "ZeroDivisionError"}

(***************************************************************************)
(* Properties of the KGRAG instance                                        *)
(***************************************************************************)
\* C17: whatever the text generator does, generate_answer and describe_node
\* return, and whenever no completion was obtained the text is the one fixed
\* fallback string: all such calls return the same text
C17_OneFallbackText == Cardinality(fallback_texts) <= 1

\* C18: the availability probe runs once, at construction; no later call
\* changes the cached flag or probes again; and while the flag is false no
\* call sends a request to a text generator
C18_AvailabilityProbedOnce ==
    /\ [](eng_pc = "ready" => probes = 1)
    /\ [][eng_pc = "ready" =>
             /\ rag'.llm_available = rag.llm_available
             /\ probes' = probes
             /\ ~rag.llm_available => llm_requests' = llm_requests]_vars

\* C18 witness: an instance whose probe found no text generator has loaded a
\* description and then described a node of it
C18_Witness ==
    /\ eng_pc = "ready"
    /\ ~rag.llm_available
    /\ rag.current_json_nodes # <<>>
    /\ last_call.op = "describe_node"
    /\ last_call.outcome.generated
    /\ llm_requests = 0

\* C19: when find_similar_entities returns an empty list for the node that
\* is described, describe_node returns the "No information found" result
C19_NoMatchIsNoInformation ==
    (/\ last_call.op = "describe_node"
     /\ last_call.outcome.similar.status = "returned"
     /\ last_call.outcome.similar.value = <<>>)
        => last_call.outcome.result.kind = "no information"

\* C20: a load_json_data call sets the active description to its argument and
\* derives the node list; every other attribute of the instance (embeddings,
\* vocabulary maps, fact list, availability flag) is as before the call
C20_ReloadFrame ==
    [][(eng_pc = "ready" /\ eng_calls' = eng_calls + 1
            /\ last_call'.op = "load_json_data") =>
          /\ DOMAIN rag' = DOMAIN rag
          /\ \A attribute \in DOMAIN rag \ {"current_kg_data", "current_json_nodes"} :
                rag'[attribute] = rag[attribute]
          /\ rag'.current_kg_data = last_call'.data]_vars

\* C20 witness: a reload that replaced a loaded description by another one,
\* on an instance that holds facts and found a text generator
C20_Witness ==
    /\ eng_pc = "ready"
    /\ last_call.op = "load_json_data"
    /\ last_call.replaced # None
    /\ last_call.replaced # last_call.data
    /\ rag.current_kg_data = last_call.data
    /\ rag.current_json_nodes # <<>>
    /\ rag.triples # <<>>
    /\ rag.llm_available

(***************************************************************************)
(* Properties of the validator, the sampler and the training loop          *)
(***************************************************************************)
RECURSIVE SumOfSeq(_)
SumOfSeq(s) == IF s = <<>> THEN 0 ELSE Head(s) + SumOfSeq(Tail(s))

\* the weighted clipped loss of every (fact, negative) pair a validation run
\* with the given draws evaluates on the live matrices, in evaluation order
ValidationPairLosses(draws) ==
    LET E == heap[entity_embeddings]
        R == heap[relation_embeddings]
    IN  [j \in 1..(Len(val_triples) * VAL_NEG_SAMPLES) |->
            LET f == val_triples[((j - 1) \div VAL_NEG_SAMPLES) + 1]
                c == IF draws[j][1] THEN <<draws[j][2], f[2], f[3]>>
                     ELSE <<f[1], f[2], draws[j][2]>>
                weight == IF f[2] \in DOMAIN relation_importance
                          THEN relation_importance[f[2]] ELSE 10
                slack == TrainMargin + compute_score(E[f[1]], R[f[2]], E[f[3]])
                            - compute_score(E[c[1]], R[c[2]], E[c[3]])
            IN  IF slack > 0 THEN slack * weight ELSE 0]

C22_NegativeIsNoTrueFact ==
    (last_step # None /\ last_step.neg \notin triple_set)
        => last_step.neg \notin Range(train_triples) \cup Range(val_triples)

\* C23: the sampler returns after at most max_attempts corruptions, and what
\* it returns is the last corruption it generated: the accepted one, or the
\* final rejected one when every attempt collided
C23_ReturnsLastAttempt ==
    ns_pc = "returned" =>
        /\ ns_attempt <= max_attempts
        /\ ns_result = ns_neg_triple

\* the validation scores seen so far
ScoresSeen == Range(val_history)

\* the epochs (1-based) whose score was strictly below every earlier score
ImprovingEpochs == {k \in 1..Len(val_history) : Improved(k)}

\* C25: an epoch whose validation score is strictly below the best-known score
\* snapshots both matrices, makes that score the best-known one and sets the
\* counter to 0; any other epoch, one of equal score included, keeps snapshot
\* and best-known score and adds 1 to the counter. Hence the best-known score
\* is the minimum of the scores seen and the counter is the number of epochs
\* since the last strict improvement.
C25_SnapshotAndPatience ==
    /\ [][tr_pc = "validate" =>
            LET val_score == val_history'[Len(val_history')]
            IN  IF best_val_score = INF \/ val_score < best_val_score
                THEN /\ BestEmbeddings' = LiveEmbeddings
                     /\ best_val_score' = val_score
                     /\ patience_counter' = 0
                ELSE /\ BestEmbeddings' = BestEmbeddings
                     /\ best_val_score' = best_val_score
                     /\ patience_counter' = patience_counter + 1]_vars
    /\ [](tr_pc # "idle" =>
            /\ IF val_history = <<>> THEN best_val_score = INF
               ELSE best_val_score = MinOf(ScoresSeen)
            /\ patience_counter =
                  Len(val_history) - (IF ImprovingEpochs = {} THEN 0
                                      ELSE MaxOf(ImprovingEpochs)))

\* C25 witness: after a strict improvement that was not the first epoch, an
\* epoch of equal score has raised the counter
C25_Witness ==
    /\ Len(val_history) >= 3
    /\ Improved(2)
    /\ val_history[3] = val_history[2]
    /\ patience_counter = Len(val_history) - 2
    /\ BestEmbeddings = LiveAtEndOf(2)

\* C26: training returns; it never runs more epochs than the cap; it is still
\* running only while the counter is below patience, so the counter never
\* exceeds patience and a return before the cap happens at the end of the
\* first epoch at which the counter reached patience; with a cap of 0 it
\* returns the initial matrices
C26_TrainingTerminates ==
    /\ <>(tr_pc = "returned")
    /\ [](/\ epoch <= num_epochs
          /\ Len(val_history) = epoch
          /\ patience_counter <= patience
          /\ tr_pc \in {"epoch", "step", "validate"} => patience_counter < patience
          /\ (tr_pc = "returned" /\ epoch < num_epochs) => patience_counter = patience
          /\ (tr_pc = "returned" /\ num_epochs = 0) =>
                /\ tr_result = live_history[1]
                /\ LiveEmbeddings = live_history[1])

\* C26 witness: a run that stopped before the cap, with the counter at
\* patience after an epoch that had it below
C26_Witness ==
    /\ tr_pc = "returned"
    /\ 1 < epoch
    /\ epoch < num_epochs
    /\ patience_counter = patience
    /\ val_history[epoch] >= val_history[epoch - 1]

(***************************************************************************)
(* Properties of one gradient step                                         *)
(***************************************************************************)
\* the clipped, weighted loss of the drawn pair on the matrices before the step
StepClippedLoss ==
    LET slack == TrainMargin
                    + compute_score(gs_E[gs_pos[1]], gs_R[gs_pos[2]], gs_E[gs_pos[3]])
                    - compute_score(gs_E[gs_neg[1]], gs_R[gs_neg[2]], gs_E[gs_neg[3]])
        weight == IF gs_pos[2] = TrainRelationToIdx[HAS_INPUT]
                  THEN RelationWeight(TrainRelationTypes[HAS_INPUT]) ELSE 10
    IN  (IF slack > 0 THEN slack ELSE 0) * weight

\* the entity the sampler put into the negative fact
StepCorruptedEntity == IF gs_neg[1] # gs_pos[1] THEN gs_neg[1] ELSE gs_neg[3]

\* the entities whose vectors the step may change
StepTouched == {gs_pos[1], gs_pos[3], gs_neg[1], gs_neg[3]}

\* C27: a pair whose clipped loss is not strictly positive changes no vector;
\* a pair whose clipped loss is strictly positive changes at most the vectors
\* of the positive head and tail, of the corrupted entity and of the fact's
\* relation
C27_GradientStepFrame ==
    gs_pc = "done" =>
        IF StepClippedLoss > 0
        THEN /\ \A e \in DOMAIN gs_E \ {gs_pos[1], gs_pos[3], StepCorruptedEntity} :
                    gs_out.E[e] = gs_E[e]
             /\ \A r \in DOMAIN gs_R \ {gs_pos[2]} : gs_out.R[r] = gs_R[r]
        ELSE gs_out.E = gs_E /\ gs_out.R = gs_R

\* C27 witness: a step of strictly positive loss changed the vectors of the
\* positive head, of the positive tail, of the corrupted entity and of the
\* relation, while an entity and a relation outside the pair exist
C27_Witness ==
    /\ gs_pc = "done"
    /\ StepClippedLoss > 0
    /\ DOMAIN gs_E \ {gs_pos[1], gs_pos[3], StepCorruptedEntity} # {}
    /\ DOMAIN gs_R \ {gs_pos[2]} # {}
    /\ \A e \in {gs_pos[1], gs_pos[3], StepCorruptedEntity} : gs_out.E[e] # gs_E[e]
    /\ gs_out.R[gs_pos[2]] # gs_R[gs_pos[2]]

\* the entities in the roles h, t, h_neg, t_neg of the step, in the order of
\* the norms measured at lines 467-470
StepRoles == <<gs_pos[1], gs_pos[3], gs_neg[1], gs_neg[3]>>

\* C28: after a gradient step every entity whose norm after update and
\* shrinkage was measured above 1 ends the step with norm 1, within EPS,
\* in whichever and however many of the four roles it stands
C28_ProjectedToNormOne ==
    (gs_pc = "done" /\ gs_out.updated) =>
        \A i \in 1..4 :
            gs_out.norms[i] > SCALE =>
                /\ Norm(gs_out.E[StepRoles[i]]) >= SCALE - EPS
                /\ Norm(gs_out.E[StepRoles[i]]) <= SCALE + EPS

(***************************************************************************)
(* The validator's negatives against the sampler's                         *)
(***************************************************************************)
\* lines 337-350 of evaluate_model_margin: the corrupted facts one sample of
\* the validator can score for a fact: every head or tail corruption, scored
\* as drawn
ValidatorCorruptions(triple, n) ==
    {Corrupt(triple, head, e) : head \in BOOLEAN, e \in 0..(n - 1)}

C24_FrontEndServesLatest ==
    last_request # None =>
        /\ current_kg_data = last_created
        /\ (last_request.op = "create" /\ last_request.status = "ok")
              => current_kg_data = last_request.argument
        /\ (last_request.op = "node-description" /\ last_request.described)
              => last_request.engine.current_kg_data = current_kg_data
        /\ (last_request.op = "current" /\ last_created # None)
              => last_request.result = last_created
        /\ (last_request.op \in {"node-description", "current"} /\ last_created = None)
              => last_request.status = "404"

\* C24 witness: the last of MaxWebRequests requests is a node-description
\* request answered with a description, by an instance whose active
\* description is the stored one
C24_Witness ==
    /\ last_request # None
    /\ last_request.op = "node-description"
    /\ last_request.status = "ok"
    /\ last_request.described
    /\ last_request.result.kind = "description"
    /\ last_request.engine.current_kg_data = last_created
    /\ last_created = FrontDescriptionB
    /\ web_requests = MaxWebRequests

\* the node list an instance holds is the one extracted from its active
\* description (none when nothing can be extracted from it)
NodesOfActiveDescription(self) ==
    self.current_kg_data # None =>
        IF ExtractionRaises(self.current_kg_data) THEN self.current_json_nodes = <<>>
        ELSE self.current_json_nodes = extract_json_nodes(self.current_kg_data)

\* C30: the node list of the KGRAG instance is always the one extracted from
\* its active description, also after a load_json_data that raised, and
\* describe_node never runs on the nodes of an older description
C30_NodesFollowDescription ==
    last_request # None =>
        /\ rag_instance # None => NodesOfActiveDescription(rag_instance)
        /\ (last_request.op = "node-description" /\ last_request.described)
              => NodesOfActiveDescription(last_request.engine)

====
